---- MODULE Spec2Model ----
(***************************************************************************)
(* Reliability watchdogs of the browser automation agent: stale-element    *)
(* recovery, content stabilization, navigation verification, form outcome  *)
(* tracking and network retry.                                             *)
(*                                                                         *)
(* The staleness watchdog's clock counts whole seconds; the polling loops  *)
(* count ticks of half a second (1.0 s is 2 ticks).                        *)
(* Python's None is the empty tuple <<>>, a present value x is <<x>>.      *)
(* A dict is a set of <<key, value>> pairs with distinct keys, or a        *)
(* function whose DOMAIN is the set of stored keys.  A string that is      *)
(* searched or compared case-insensitively is a tuple of words.            *)
(***************************************************************************)
EXTENDS Integers, Sequences, FiniteSets, TLC

VARIABLES
    \* ElementStalenessWatchdog
    retry_counts,       \* self._retry_counts: retry key -> count (stored keys only)
    last_dom_rebuild,   \* self._last_dom_rebuild
    now,                \* time.time()
    proc,               \* the handler coroutines the event bus runs concurrently
    selector_map,       \* dom_watchdog.selector_map, in iteration order
    errors,             \* BrowserErrorEvents dispatched so far
    rebuilds,           \* history: times of the BrowserStateRequestEvents that
                        \* _force_dom_rebuild dispatched less than 1 s ago
    attempts,           \* history: recoveries started per key since its last reset
    events,             \* history: events delivered so far
    last_op,            \* history: what the last handler step did
    last_event,         \* history: the event as that step left it, if it ended a recovery
    lookups             \* history: _find_fresh_element_equivalent calls of that step

VARIABLES
    \* Inputs and results of the pure parts of the stale-element resolver
    phase,              \* "off", an input kind, or the function that was applied
    in_node,            \* the stale reference
    in_map,             \* the fresh selector map
    in_desc,            \* the answer of session acquisition and DOM.describeNode
    out_fresh,          \* the element returned, or None
    out_stale           \* the result of the staleness check

staleVars == <<retry_counts, last_dom_rebuild, now, proc, selector_map, errors,
               rebuilds, attempts, events, last_op, last_event, lookups>>

VARIABLES
    \* One polling loop at a time, in ticks of half a second
    loop,               \* the loop that runs
    poll_pc,            \* "poll" while it runs, "done" when its handler is through
    elapsed,            \* stabilization_time / elapsed / clock time since start_time
    iterations,         \* history: executions of the loop body
    outcome,            \* how the last loop ended
    last_content_hash,  \* _wait_for_content_stabilization's local
    stable_start_time,  \* _wait_for_content_stabilization's local
    observed,           \* history: the fingerprints and loading answers of the last ticks
    initial_empty,      \* _wait_for_dynamic_lists' initial_data['emptyLists']
    stab_history,       \* history: was every tick unstable so far, and what the loop logged
    pre_submit_state,   \* _track_form_submission's pre_submit_state
    current_state       \* the page state captured last by _verify_form_submission_success

VARIABLES
    \* One event handler and the calls it makes that can fail
    f_handler,          \* the handler that runs
    f_site,             \* the call site it is at
    f_status,           \* "running", "returned" or "raised"
    f_failed            \* history: the call sites that failed during this handling

VARIABLES
    \* EnhancedNavigationWatchdog
    loading_retry_count,    \* self._loading_retry_count: url -> reloads counted (stored keys only)
    navigation_attempts,    \* self._navigation_attempts: url -> navigation starts counted
    nav_proc,               \* the navigation handlers the event bus runs concurrently
    nav_events,             \* history: navigation events delivered so far
    reloads,                \* history: Page.reload requests issued per url
    grants_since_reset,     \* history: reloads decided per url since its counter was last set to 0
    last_nav                \* history: the handler that returned last, as it ended

VARIABLES
    \* EnhancedErrorClassifier
    cls_pc,             \* "start", "classified" or "done"
    cls_error,          \* the error given to classify_error
    classification,     \* the ErrorClassificationResult at hand
    attempt_number,     \* the attempt number given to get_retry_strategy
    strategy            \* the pair get_retry_strategy returned

VARIABLES
    \* NetworkReliabilityWatchdog
    network_failure_count,  \* self._network_failure_count: url -> failures counted (stored keys only)
    last_network_failure,   \* self._last_network_failure: url -> time of the last failure
    net_now,                \* time.time(), in seconds
    net_proc,               \* the handlers waiting before their retry
    net_events,             \* history: navigation events delivered so far
    net_sent,               \* history: reloads and navigations requested as retries
    failures_since_reset,   \* history: failures recorded per url since its entry was last removed
    last_net                \* history: what the last event handled did

pureVars == <<phase, in_node, in_map, in_desc, out_fresh, out_stale>>

pollVars == <<loop, poll_pc, elapsed, iterations, outcome, last_content_hash,
              stable_start_time, observed, initial_empty,
              stab_history,
              pre_submit_state,
              current_state>>

faultVars == <<f_handler, f_site, f_status, f_failed>>

navVars == <<loading_retry_count, navigation_attempts, nav_proc, nav_events, reloads,
             grants_since_reset, last_nav>>

classVars == <<cls_pc, cls_error, classification, attempt_number, strategy>>

netVars == <<network_failure_count, last_network_failure, net_now, net_proc, net_events,
             net_sent, failures_since_reset, last_net>>

vars == <<staleVars, pureVars, pollVars, faultVars, navVars, classVars, netVars>>

\* What the steps of one component leave alone
notStale == <<pureVars, pollVars, faultVars, navVars, classVars, netVars>>
notPure == <<staleVars, pollVars, faultVars, navVars, classVars, netVars>>
notPoll == <<staleVars, pureVars, faultVars, navVars, classVars, netVars>>
notFault == <<staleVars, pureVars, pollVars, navVars, classVars, netVars>>
notNav == <<staleVars, pureVars, pollVars, faultVars, classVars, netVars>>
notClass == <<staleVars, pureVars, pollVars, faultVars, navVars, netVars>>
notNet == <<staleVars, pureVars, pollVars, faultVars, navVars, classVars>>

formVars == <<pre_submit_state, current_state>>

None == <<>>
Some(x) == <<x>>

----------------------------------------------------------------------------
(* Bounds of the model *)

MaxEvents == 3      \* events delivered to the staleness watchdog in one run
MaxTime == 1        \* seconds the staleness watchdog's clock advances in one run
MaxCandidates == 2  \* elements of a fresh selector map given to the resolver
MaxDelay == 1       \* ticks an inspection call can take beyond the sleep that follows it
MaxNavEvents == 4   \* navigation events delivered to EnhancedNavigationWatchdog in one run
MaxWords == 3       \* words of an error text given to classify_error
MaxAttempt == 3     \* largest attempt number and max_retries given to get_retry_strategy
MaxNetEvents == 3   \* navigation events delivered to NetworkReliabilityWatchdog in one run
MaxNetClock == 602  \* last second of the clock of NetworkReliabilityWatchdog

----------------------------------------------------------------------------
(* Strings *)

\* str.lower() on the words of the model's vocabulary
lower_word(w) ==
    CASE w = "BUTTON" -> "button"
      [] w = "Button" -> "button"
      [] w = "DIV" -> "div"
      [] w = "INPUT" -> "input"
      [] w = "Node" -> "node"
      [] w = "Invalid" -> "invalid"
      [] w = "Could" -> "could"
      [] w = "Execution" -> "execution"
      [] w = "Timeout" -> "timeout"
      [] w = "Disconnected" -> "disconnected"
      [] w = "Error" -> "error"
      [] w = "No" -> "no"
      [] w = "SPAN" -> "span"
      [] w = "net::ERR_CONNECTION_RESET" -> "net::err_connection_reset"
      [] w = "net::ERR_CERT_AUTHORITY_INVALID" -> "net::err_cert_authority_invalid"
      [] OTHER -> w

lower(s) == [i \in 1..Len(s) |-> lower_word(s[i])]

\* `indicator in error_str`: indicator occurs as a contiguous run of s
contains(s, indicator) ==
    \E i \in 0..(Len(s) - Len(indicator)) :
        \A j \in 1..Len(indicator) : s[i + j] = indicator[j]

----------------------------------------------------------------------------
(* Elements (EnhancedDOMTreeNode snapshots) and the element index *)

Element(target, nid, idx, name, attrs, pos) ==
    [target_id |-> target, node_id |-> nid, element_index |-> idx,
     node_name |-> name, attributes |-> attrs, absolute_position |-> pos]

Pos(x, y) == Some([x |-> x, y |-> y])

abs(n) == IF n < 0 THEN -n ELSE n

attr_keys(attributes) == {kv[1] : kv \in attributes}

attr_get(attributes, k) == (CHOOSE kv \in attributes : kv[1] = k)[2]

\* dom_watchdog.selector_map.get(element_index)
selector_map_get(map, element_index) ==
    IF \E i \in 1..Len(map) : map[i].element_index = element_index
    THEN Some(map[CHOOSE i \in 1..Len(map) : map[i].element_index = element_index])
    ELSE None

----------------------------------------------------------------------------
(* ElementStalenessWatchdog: pure parts *)

max_retries_plus_one == 2 + 1

max_retries == 2

rebuild_min_interval == 1

match_threshold_low == 15 - 5

match_threshold == 15

stale_indicators ==
    { <<"node", "not", "found">>,
      <<"could", "not", "find", "node">>,
      <<"invalid", "node", "id">>,
      <<"node", "is", "not", "attached">>,
      <<"disconnected", "frame">>,
      <<"execution", "context", "destroyed">> }

\* The outcome of the session acquisition and of DOM.describeNode
DescribeOk(name) == [session_ok |-> TRUE, ok |-> TRUE, nodeName |-> name, message |-> <<>>]
DescribeFails(msg) == [session_ok |-> TRUE, ok |-> FALSE, nodeName |-> "", message |-> msg]
SessionFails == [session_ok |-> FALSE, ok |-> FALSE, nodeName |-> "", message |-> <<>>]

check_element_staleness_case_sensitive(node, d) ==
    IF node.target_id = "" THEN FALSE
    ELSE IF ~d.session_ok THEN FALSE
    ELSE IF d.ok
         THEN node.node_name /= "" /\ d.nodeName /= "" /\ node.node_name /= d.nodeName
         ELSE \E indicator \in stale_indicators : contains(lower(d.message), indicator)

check_element_staleness(node, d) ==
    IF node.target_id = "" THEN FALSE
    ELSE IF ~d.session_ok THEN FALSE
    ELSE IF d.ok
         THEN LET original_name == node.node_name
                  current_name == lower_word(d.nodeName)
              IN  /\ original_name /= ""
                  /\ current_name /= ""
                  /\ lower_word(original_name) /= current_name
         ELSE LET error_str == lower(d.message)
              IN  \E indicator \in stale_indicators : contains(error_str, indicator)

name_score(stale_node, fresh_node) ==
    IF /\ stale_node.node_name /= ""
       /\ fresh_node.node_name /= ""
       /\ lower_word(stale_node.node_name) = lower_word(fresh_node.node_name)
    THEN 10 ELSE 0

attribute_score_heavy(stale_node, fresh_node) ==
    8 * Cardinality(stale_node.attributes \cap fresh_node.attributes)

attribute_score(stale_node, fresh_node) ==
    IF stale_node.attributes /= {} /\ fresh_node.attributes /= {}
    THEN LET common_attrs == attr_keys(stale_node.attributes) \cap attr_keys(fresh_node.attributes)
         IN  2 * Cardinality({attr \in common_attrs :
                    attr_get(stale_node.attributes, attr) = attr_get(fresh_node.attributes, attr)})
    ELSE 0

position_score(stale_node, fresh_node) ==
    IF stale_node.absolute_position /= None /\ fresh_node.absolute_position /= None
    THEN LET x_diff == abs(stale_node.absolute_position[1].x - fresh_node.absolute_position[1].x)
             y_diff == abs(stale_node.absolute_position[1].y - fresh_node.absolute_position[1].y)
         IN  IF x_diff < 50 /\ y_diff < 50 THEN 5 ELSE 0
    ELSE 0

match_score(stale_node, fresh_node) ==
    name_score(stale_node, fresh_node)
    + attribute_score(stale_node, fresh_node)
    + position_score(stale_node, fresh_node)

is_better_or_equal_match(score, best_match_score) ==
    score >= best_match_score /\ score >= match_threshold

\* `if score > best_match_score and score >= 15`
is_better_match(score, best_match_score) ==
    score > best_match_score /\ score >= match_threshold

RECURSIVE characteristics_loop(_, _, _, _, _)
characteristics_loop(stale_node, fresh_selector_map, i, best_match, best_match_score) ==
    IF i > Len(fresh_selector_map) THEN best_match
    ELSE LET fresh_node == fresh_selector_map[i]
             score == match_score(stale_node, fresh_node)
         IN  IF is_better_match(score, best_match_score)
             THEN characteristics_loop(stale_node, fresh_selector_map, i + 1, Some(fresh_node), score)
             ELSE characteristics_loop(stale_node, fresh_selector_map, i + 1, best_match, best_match_score)

find_by_element_characteristics(stale_node, fresh_selector_map) ==
    characteristics_loop(stale_node, fresh_selector_map, 1, None, 0)

find_fresh_element_equivalent_scoring_first(stale_node, map) ==
    IF map = <<>> THEN None
    ELSE LET best_match == find_by_element_characteristics(stale_node, map)
         IN  IF best_match /= None THEN best_match
             ELSE selector_map_get(map, stale_node.element_index)

\* `map = <<>>` stands for no DOM watchdog and for an empty selector map
find_fresh_element_equivalent(stale_node, map) ==
    IF map = <<>> THEN None
    ELSE LET fresh_element == selector_map_get(map, stale_node.element_index)
         IN  IF fresh_element /= None THEN fresh_element
             ELSE find_by_element_characteristics(stale_node, map)

get_element_key(node) == <<node.target_id, node.element_index, node.node_id>>

retry_key_of(action_type, node) == <<action_type>> \o get_element_key(node)

get_retry_count(counts, retry_key) ==
    IF retry_key \in DOMAIN counts THEN counts[retry_key] ELSE 0

increment_retry_count_lost(counts, retry_key) == counts

increment_retry_count_clobbering(counts, retry_key) ==
    [k \in {retry_key} |-> get_retry_count(counts, retry_key) + 1]

increment_retry_count(counts, retry_key) ==
    [k \in DOMAIN counts \cup {retry_key} |->
        IF k = retry_key THEN get_retry_count(counts, retry_key) + 1 ELSE counts[k]]

reset_retry_count(counts, retry_key) ==
    [k \in DOMAIN counts \ {retry_key} |-> counts[k]]

retry_limit_reached_strict(retry_count) == retry_count > max_retries

retry_limit_reached(retry_count) == retry_count >= max_retries

rebuild_too_recent_short_window(current_time, last_rebuild) ==
    current_time - last_rebuild < rebuild_min_interval - 1

rebuild_too_recent(current_time, last_rebuild) ==
    current_time - last_rebuild < rebuild_min_interval

update_event_clobbering(event, fresh_element) ==
    [event EXCEPT !.node = fresh_element, !.data = ""]

update_event_with_fresh_element(event, fresh_element) ==
    [event EXCEPT !.node = fresh_element]

----------------------------------------------------------------------------
(* ElementStalenessWatchdog: the handlers, cut at their suspension points *)

Procs == {1, 2}

ActionTypes == {"click", "type", "upload", "scroll"}

IdAttr == {<<"id", "submit-1">>}

\* The node that element events carry, and its neighbour in the first index
N1 == Element("T1", 11, 1, "BUTTON", IdAttr, Pos(100, 200))
N2 == Element("T1", 12, 2, "div", {}, None)
EventNodes == {N1}

\* Elements of a rebuilt index: F1 has N1's index, F3 resembles N1 under another
\* index, F4 resembles nothing
F1 == Element("T1", 21, 1, "button", IdAttr, Pos(100, 200))
F3 == Element("T1", 23, 3, "button", IdAttr, Pos(110, 210))
F4 == Element("T1", 24, 4, "div", {}, None)
FreshMaps == {<<>>, <<F1>>, <<F4, F3>>}

\* What session acquisition and DOM.describeNode can answer
DescribeOutcomes ==
    { DescribeOk("BUTTON"), DescribeOk("DIV"), DescribeOk("SPAN"),
      DescribeFails(<<"Node", "not", "found">>),
      DescribeFails(<<"Timeout">>),
      SessionFails }

RetryKeys == {retry_key_of(a, n) : a \in ActionTypes, n \in EventNodes}

NoEvent == [kind |-> "", node |-> None, data |-> ""]

IdleProc ==
    [pc |-> "idle", event |-> NoEvent, stale_node |-> None, retry_key |-> <<>>,
     current_time |-> 0]

Op(op, p) == op

StaleInit ==
    /\ retry_counts = [k \in {} |-> 0]
    /\ last_dom_rebuild = 0
    /\ now = rebuild_min_interval
    /\ proc = [p \in Procs |-> IdleProc]
    /\ selector_map = <<N1, N2>>
    /\ errors = <<>>
    /\ rebuilds = <<>>
    /\ attempts = [k \in RetryKeys |-> 0]
    /\ events = 0
    /\ last_op = Op("init", 0)
    /\ last_event = NoEvent
    /\ lookups = 0
    /\ phase = "off"
    /\ in_node = N1
    /\ in_map = <<>>
    /\ in_desc = SessionFails
    /\ out_fresh = None
    /\ out_stale = FALSE
    /\ loop = "none"
    /\ poll_pc = "done"
    /\ elapsed = 0
    /\ iterations = 0
    /\ outcome = ""
    /\ last_content_hash = None
    /\ stable_start_time = None
    /\ observed = <<>>
    /\ initial_empty = 0
    /\ stab_history = [all_unstable |-> TRUE, logged |-> {}]
    /\ pre_submit_state = None
    /\ current_state = None
    /\ cls_pc = "off"
    /\ cls_error = None
    /\ classification = None
    /\ attempt_number = 0
    /\ strategy = None
    /\ network_failure_count = [u \in {} |-> 0]
    /\ last_network_failure = [u \in {} |-> 0]
    /\ net_now = 0
    /\ net_proc = [p \in {} |-> 0]
    /\ net_events = 0
    /\ net_sent = <<>>
    /\ failures_since_reset = [u \in {} |-> 0]
    /\ last_net = <<>>
    /\ f_handler = "none"
    /\ f_site = 0
    /\ f_status = "returned"
    /\ f_failed = {}
    /\ loading_retry_count = [u \in {} |-> 0]
    /\ navigation_attempts = [u \in {} |-> 0]
    /\ nav_proc = [p \in {} |-> 0]
    /\ nav_events = 0
    /\ reloads = [u \in {} |-> 0]
    /\ grants_since_reset = [u \in {} |-> 0]
    /\ last_nav = <<>>

\* _handle_element_action_with_staleness_check up to its first await
handle_element_action_with_staleness_check(p, action_type, node) ==
    /\ proc[p].pc = "idle"
    /\ \A q \in Procs : q < p => proc[q].pc /= "idle"
    /\ events < MaxEvents
    /\ events' = events + 1
    /\ proc' = [proc EXCEPT ![p] =
                    [pc |-> "check",
                     event |-> [kind |-> action_type, node |-> Some(node), data |-> "payload"],
                     stale_node |-> Some(node),
                     retry_key |-> retry_key_of(action_type, node),
                     current_time |-> 0]]
    /\ last_op' = Op("begin", p)
    /\ last_event' = NoEvent
    /\ lookups' = 0
    /\ UNCHANGED notStale
    /\ UNCHANGED <<retry_counts, last_dom_rebuild, now, selector_map, errors,
                   rebuilds, attempts>>

on_ClickElementEvent(p, node) ==
    handle_element_action_with_staleness_check(p, "click", node)

on_TypeTextEvent(p, node) ==
    handle_element_action_with_staleness_check(p, "type", node)

on_UploadFileEvent(p, node) ==
    handle_element_action_with_staleness_check(p, "upload", node)

\* A scroll of the page carries no node and is not checked
on_ScrollEvent(p, node) ==
    IF node /= None
    THEN handle_element_action_with_staleness_check(p, "scroll", node[1])
    ELSE /\ proc[p].pc = "idle"
         /\ \A q \in Procs : q < p => proc[q].pc /= "idle"
         /\ events < MaxEvents
         /\ events' = events + 1
         /\ last_event' = NoEvent
         /\ last_op' = Op("page_scroll", p)
         /\ lookups' = 0
         /\ UNCHANGED notStale
         /\ UNCHANGED <<retry_counts, last_dom_rebuild, now, proc, selector_map, errors,
                        rebuilds, attempts>>

\* dom_watchdog.clear_cache(): the DOM watchdog may drop its index at once or
\* keep it until the rebuild replaces it
cleared_maps(map) == {map, <<>>}

\* The tail of _handle_stale_element: lookup, event update, counter reset
finish_recovery(p, counts, started, map) ==
    LET fresh_element == find_fresh_element_equivalent(proc[p].stale_node[1], map)
        key == proc[p].retry_key
    IN  /\ lookups' = 1
        /\ IF fresh_element /= None
           THEN /\ proc' = [proc EXCEPT ![p] = IdleProc]
                /\ last_event' = update_event_with_fresh_element(proc[p].event, fresh_element)
                /\ retry_counts' = reset_retry_count(counts, key)
                /\ attempts' = [started EXCEPT ![key] = 0]
                /\ last_op' = Op("recovered", p)
           ELSE /\ proc' = [proc EXCEPT ![p] = IdleProc]
                /\ last_event' = proc[p].event
                /\ retry_counts' = counts
                /\ attempts' = started
                /\ last_op' = Op("not_found", p)

\* _handle_stale_element with _force_dom_rebuild up to `await state_request`
handle_stale_element(p) ==
    LET key == proc[p].retry_key
        stale_node == proc[p].stale_node[1]
        retry_count == get_retry_count(retry_counts, key)
    IN  IF retry_limit_reached(retry_count)
        THEN /\ errors' = Append(errors,
                    [error_type |-> "ElementStalenessRetryExceeded",
                     action_type |-> proc[p].event.kind,
                     element_index |-> stale_node.element_index,
                     retry_count |-> retry_count])
             /\ proc' = [proc EXCEPT ![p] = IdleProc]
             /\ last_event' = proc[p].event
             /\ last_op' = Op("exhausted", p)
             /\ lookups' = 0
             /\ UNCHANGED <<retry_counts, last_dom_rebuild, selector_map, rebuilds,
                            attempts>>
        ELSE LET counts == increment_retry_count(retry_counts, key)
             IN  IF rebuild_too_recent(now, last_dom_rebuild)
                 THEN /\ finish_recovery(p, counts, [attempts EXCEPT ![key] = @ + 1],
                                         selector_map)
                      /\ UNCHANGED <<last_dom_rebuild, selector_map, rebuilds, errors>>
                 ELSE /\ retry_counts' = counts
                      /\ attempts' = [attempts EXCEPT ![key] = @ + 1]
                      /\ \E m \in cleared_maps(selector_map) : selector_map' = m
                      /\ rebuilds' = Append(rebuilds, now)
                      /\ proc' = [proc EXCEPT ![p].pc = "rebuild", ![p].current_time = now]
                      /\ last_op' = Op("rebuild", p)
                      /\ last_event' = NoEvent
                      /\ lookups' = 0
                      /\ UNCHANGED <<last_dom_rebuild, errors>>
\* The node-description query answered: `return False  # Element appears to
\* be valid`; the other ways to `return False` are the failing session and
\* the query failing with an unknown error
confirmed_live(d) == d.session_ok /\ d.ok

\* The staleness check answers: _handle_element_action_with_staleness_check
\* from the return of _check_element_staleness to its next await or its end
staleness_checked(p, d) ==
    /\ proc[p].pc = "check"
    /\ now' = now
    /\ events' = events
    /\ UNCHANGED notStale
    /\ IF check_element_staleness(proc[p].stale_node[1], d)
       THEN handle_stale_element(p)
       ELSE /\ retry_counts' = reset_retry_count(retry_counts, proc[p].retry_key)
            /\ attempts' = [attempts EXCEPT ![proc[p].retry_key] = 0]
            /\ proc' = [proc EXCEPT ![p] = IdleProc]
            /\ last_event' = proc[p].event
            /\ last_op' = Op(IF confirmed_live(d) THEN "not_stale" ELSE "inconclusive", p)
            /\ lookups' = 0
            /\ UNCHANGED <<last_dom_rebuild, selector_map, errors, rebuilds>>

\* The state request returns (ok) or raises: the rest of _force_dom_rebuild and
\* of _handle_stale_element. The DOM watchdog has rebuilt its index meanwhile.
dom_rebuild_returned(p, ok, map) ==
    /\ proc[p].pc = "rebuild"
    /\ selector_map' = map
    /\ last_dom_rebuild' = IF ok THEN proc[p].current_time ELSE last_dom_rebuild
    /\ finish_recovery(p, retry_counts, attempts, map)
    /\ UNCHANGED <<now, errors, rebuilds, events>>
    /\ UNCHANGED notStale

\* The requests of `log` issued less than 1 s before time t
within_last_second(log, t) ==
    SelectSeq(log, LAMBDA issued : t - issued < rebuild_min_interval)

\* time.time() advances
Tick ==
    /\ now < rebuild_min_interval + MaxTime
    /\ now' = now + 1
    /\ rebuilds' = within_last_second(rebuilds, now')
    /\ UNCHANGED notStale
    /\ UNCHANGED <<retry_counts, last_dom_rebuild, proc, selector_map, errors,
                   attempts, events, last_op, last_event, lookups>>

StaleNext ==
    \/ \E p \in Procs, n \in EventNodes : on_ClickElementEvent(p, n)
    \/ \E p \in Procs, n \in EventNodes : on_TypeTextEvent(p, n)
    \/ \E p \in Procs, n \in EventNodes : on_UploadFileEvent(p, n)
    \/ \E p \in Procs, n \in {None} \cup {Some(e) : e \in EventNodes} : on_ScrollEvent(p, n)
    \/ \E p \in Procs, d \in DescribeOutcomes : staleness_checked(p, d)
    \/ \E p \in Procs, ok \in BOOLEAN, m \in FreshMaps : dom_rebuild_returned(p, ok, m)
    \/ Tick

SpecStale == StaleInit /\ [][StaleNext]_vars

----------------------------------------------------------------------------
(* ElementStalenessWatchdog: properties *)

\* Handler p detected a stale element in this step
StaleDetected(p) ==
    /\ proc[p].pc = "check"
    /\ proc'[p] /= proc[p]
    /\ last_op' \notin {"not_stale", "inconclusive"}

\* Handler p ended a recovery attempt (made its lookup) in this step
RecoveryEnded(p) ==
    /\ proc[p].pc /= "idle"
    /\ proc'[p] /= proc[p]
    /\ lookups' = 1

\* C3: in every reachable state the retry count stored for any key is at
\* most 2, and at most 2 recovery attempts were started for the key since
\* its last reset.
C3_RetryCountAtMostTwo ==
    /\ DOMAIN retry_counts \subseteq RetryKeys
    /\ \A k \in RetryKeys : get_retry_count(retry_counts, k) <= 2 /\ attempts[k] <= 2

C3_Witness ==
    /\ last_op = "exhausted"
    /\ \E k \in RetryKeys : get_retry_count(retry_counts, k) = 2 /\ attempts[k] = 2

\* C4: a staleness detected for a key whose retry count has reached 2 emits
\* one BrowserErrorEvent(ElementStalenessRetryExceeded) with the action kind,
\* the element index and the attempt count, and that handling requests no DOM
\* rebuild, makes no lookup, leaves the event and the retry counts unchanged.
C4_ExhaustionOnlyReports ==
    [][\A p \in Procs :
        (StaleDetected(p) /\ get_retry_count(retry_counts, proc[p].retry_key) >= 2) =>
            /\ errors' = Append(errors,
                    [error_type |-> "ElementStalenessRetryExceeded",
                     action_type |-> proc[p].event.kind,
                     element_index |-> proc[p].stale_node[1].element_index,
                     retry_count |-> get_retry_count(retry_counts, proc[p].retry_key)])
            /\ rebuilds' = rebuilds
            /\ selector_map' = selector_map
            /\ lookups' = 0
            /\ last_event' = proc[p].event
            /\ retry_counts' = retry_counts]_vars

C4_Witness ==
    /\ last_op = "exhausted"
    /\ errors /= <<>>
    /\ errors[Len(errors)].retry_count = 2
    /\ errors[Len(errors)].element_index = N1.element_index

\* C5: when the lookup of a recovery finds a fresh element, the event's node
\* becomes that element and its other fields stay, the counter of the
\* handling's key becomes absent and every other key's counter stays; when
\* the lookup finds nothing the event stays as it was.
C5_RecoveryFrame ==
    [][\A p \in Procs :
        RecoveryEnded(p) =>
            LET fresh == find_fresh_element_equivalent(proc[p].stale_node[1], selector_map')
                key == proc[p].retry_key
            IN  IF fresh /= None
                THEN /\ last_event'.node = fresh
                     /\ last_event'.kind = proc[p].event.kind
                     /\ last_event'.data = proc[p].event.data
                     /\ key \notin DOMAIN retry_counts'
                     /\ \A k \in RetryKeys \ {key} :
                            /\ k \in DOMAIN retry_counts' <=> k \in DOMAIN retry_counts
                            /\ get_retry_count(retry_counts', k) = get_retry_count(retry_counts, k)
                ELSE last_event' = proc[p].event]_vars

C5_Witness ==
    /\ last_op = "recovered"
    /\ last_event.node = Some(F3)
    /\ last_event.data = "payload"
    /\ retry_key_of(last_event.kind, N1) \notin DOMAIN retry_counts
    /\ DOMAIN retry_counts /= {}

C28_AtMostTwoRebuildsPerSecond == Len(rebuilds) <= 2

\* Handler p detected a stale element in this step, below the retry limit,
\* less than 1 second after the request time of the last successful rebuild
RebuildSkipped(p) ==
    /\ StaleDetected(p)
    /\ get_retry_count(retry_counts, proc[p].retry_key) < 2
    /\ now - last_dom_rebuild < 1

\* C29: when the throttle skips the DOM rebuild, no rebuild is requested and
\* the index stays as it was before the detection, yet the handler makes its
\* lookup in that index: an element found there is substituted into the
\* event, and when nothing is found the attempt has been added to the count
\* of the key and the event stays as it was.
C29_SkippedRebuildStillCountsAndLooksUp ==
    [][\A p \in Procs :
        RebuildSkipped(p) =>
            LET key == proc[p].retry_key
                found == find_fresh_element_equivalent(proc[p].stale_node[1], selector_map)
            IN  /\ rebuilds' = rebuilds
                /\ selector_map' = selector_map
                /\ last_dom_rebuild' = last_dom_rebuild
                /\ lookups' = 1
                /\ IF found /= None
                   THEN last_event'.node = found
                   ELSE /\ last_event' = proc[p].event
                        /\ get_retry_count(retry_counts', key) =
                               get_retry_count(retry_counts, key) + 1]_vars

\* The clock never advanced and one rebuild was requested in all, so the
\* second attempt counted for the key was the one that skipped its rebuild
C29_Witness ==
    /\ last_op = "not_found"
    /\ lookups = 1
    /\ now = rebuild_min_interval
    /\ rebuilds = <<now>>
    /\ last_dom_rebuild = now
    /\ \A p \in Procs : proc[p].pc = "idle"
    /\ \E k \in RetryKeys : get_retry_count(retry_counts, k) = 2 /\ attempts[k] = 2

C36_InconclusiveCheckKeepsCounter ==
    [][/\ \A k \in DOMAIN retry_counts :
            k \notin DOMAIN retry_counts' => last_op' \in {"not_stale", "recovered"}
       /\ \A p \in Procs :
            (proc[p].pc = "check" /\ proc'[p] /= proc[p] /\ last_op' = "inconclusive")
                => retry_counts' = retry_counts]_vars

----------------------------------------------------------------------------
(* The stale-element resolver and the staleness check on enumerated inputs *)

NoAttrs == {}
OtherIdAttr == {<<"id", "other">>}
FourAttrs == {<<"id", "submit-1">>, <<"class", "btn">>, <<"type", "submit">>,
              <<"name", "go">>}
FiveAttrs == FourAttrs \cup {<<"aria-label", "Submit">>}

\* Stale references: a button under index 1, with and without attributes and
\* a recorded position
RefNodes ==
    {Element("T1", 11, 1, "BUTTON", a, pos) :
        a \in {NoAttrs, IdAttr, FiveAttrs}, pos \in {None, Pos(100, 200)}}

\* What a fresh element can look like: Pos(51, 249) is 49 px from the
\* reference on both axes, Pos(150, 200) is 50 px away on one
CandidateShapes ==
    {"button", "div"} \X {NoAttrs, IdAttr, OtherIdAttr, FiveAttrs}
        \X {None, Pos(51, 249), Pos(150, 200)}

\* Fresh selector maps in iteration order; their indices start at 1 (the
\* reference's index is present) or at 2 (it is absent)
CandidateMaps ==
    UNION {{[i \in 1..n |-> Element("T1", 20 + i, i + shift, s[i][1], s[i][2], s[i][3])] :
                s \in [1..n -> CandidateShapes], shift \in {0, 1}} :
           n \in 0..MaxCandidates}

\* References given to the staleness check; the second has no target id
CheckNodes ==
    {N1, Element("", 11, 1, "BUTTON", IdAttr, Pos(100, 200)), N2}

ErrorMessages ==
    { <<"Node", "not", "found">>,
      <<"Error", "node", "not", "found", "in", "document">>,
      <<"Could", "not", "find", "node", "with", "given", "id">>,
      <<"Invalid", "node", "id">>,
      <<"Node", "is", "not", "attached">>,
      <<"Disconnected", "frame">>,
      <<"Execution", "context", "destroyed">>,
      <<"Execution", "context", "was", "destroyed">>,
      <<"No", "node", "with", "given", "id", "found">>,
      <<"node", "found", "not">>,
      <<"Timeout">>,
      <<>> }

CheckOutcomes ==
    {DescribeOk(name) : name \in {"BUTTON", "button", "DIV", "div", "SPAN"}}
        \cup {DescribeFails(msg) : msg \in ErrorMessages}
        \cup {SessionFails}

ResolverInit ==
    /\ phase \in {"resolver_input", "check_input"}
    /\ in_node \in IF phase = "resolver_input" THEN RefNodes ELSE CheckNodes
    /\ in_map \in IF phase = "resolver_input" THEN CandidateMaps ELSE {<<>>}
    /\ in_desc \in IF phase = "resolver_input" THEN {SessionFails} ELSE CheckOutcomes
    /\ out_fresh = None
    /\ out_stale = FALSE
    /\ retry_counts = [k \in {} |-> 0]
    /\ last_dom_rebuild = 0
    /\ now = rebuild_min_interval
    /\ proc = [p \in Procs |-> IdleProc]
    /\ selector_map = <<N1, N2>>
    /\ errors = <<>>
    /\ rebuilds = <<>>
    /\ attempts = [k \in RetryKeys |-> 0]
    /\ events = 0
    /\ last_op = Op("init", 0)
    /\ last_event = NoEvent
    /\ lookups = 0
    /\ loop = "none"
    /\ poll_pc = "done"
    /\ elapsed = 0
    /\ iterations = 0
    /\ outcome = ""
    /\ last_content_hash = None
    /\ stable_start_time = None
    /\ observed = <<>>
    /\ initial_empty = 0
    /\ stab_history = [all_unstable |-> TRUE, logged |-> {}]
    /\ pre_submit_state = None
    /\ current_state = None
    /\ cls_pc = "off"
    /\ cls_error = None
    /\ classification = None
    /\ attempt_number = 0
    /\ strategy = None
    /\ network_failure_count = [u \in {} |-> 0]
    /\ last_network_failure = [u \in {} |-> 0]
    /\ net_now = 0
    /\ net_proc = [p \in {} |-> 0]
    /\ net_events = 0
    /\ net_sent = <<>>
    /\ failures_since_reset = [u \in {} |-> 0]
    /\ last_net = <<>>
    /\ f_handler = "none"
    /\ f_site = 0
    /\ f_status = "returned"
    /\ f_failed = {}
    /\ loading_retry_count = [u \in {} |-> 0]
    /\ navigation_attempts = [u \in {} |-> 0]
    /\ nav_proc = [p \in {} |-> 0]
    /\ nav_events = 0
    /\ reloads = [u \in {} |-> 0]
    /\ grants_since_reset = [u \in {} |-> 0]
    /\ last_nav = <<>>

call_find_by_element_characteristics ==
    /\ phase = "resolver_input"
    /\ phase' = "scored"
    /\ out_fresh' = find_by_element_characteristics(in_node, in_map)
    /\ UNCHANGED <<in_node, in_map, in_desc, out_stale>>
    /\ UNCHANGED notPure

call_find_fresh_element_equivalent ==
    /\ phase = "resolver_input"
    /\ phase' = "resolved"
    /\ out_fresh' = find_fresh_element_equivalent(in_node, in_map)
    /\ UNCHANGED <<in_node, in_map, in_desc, out_stale>>
    /\ UNCHANGED notPure

call_check_element_staleness ==
    /\ phase = "check_input"
    /\ phase' = "checked"
    /\ out_stale' = check_element_staleness(in_node, in_desc)
    /\ UNCHANGED <<in_node, in_map, in_desc, out_fresh>>
    /\ UNCHANGED notPure

ResolverNext ==
    \/ call_find_by_element_characteristics
    \/ call_find_fresh_element_equivalent
    \/ call_check_element_staleness

SpecResolver == ResolverInit /\ [][ResolverNext]_vars

----------------------------------------------------------------------------
(* The stale-element resolver and the staleness check: properties *)

\* Spellings of one tag name
TagClasses ==
    {{"BUTTON", "Button", "button"}, {"DIV", "div"}, {"SPAN", "span"}}

same_tag(a, b) == \E cls \in TagClasses : a \in cls /\ b \in cls

within_50px(r, c) ==
    /\ r.absolute_position /= None
    /\ c.absolute_position /= None
    /\ c.absolute_position[1].x \in (r.absolute_position[1].x - 49)..(r.absolute_position[1].x + 49)
    /\ c.absolute_position[1].y \in (r.absolute_position[1].y - 49)..(r.absolute_position[1].y + 49)

\* The scoring rule as the specification words it
reference_score(r, c) ==
    (IF same_tag(r.node_name, c.node_name) THEN 10 ELSE 0)
    + 2 * Cardinality(r.attributes \cap c.attributes)
    + (IF within_50px(r, c) THEN 5 ELSE 0)

reference_result(r, map) ==
    LET eligible == {i \in 1..Len(map) :
                        /\ reference_score(r, map[i]) >= 15
                        /\ \A j \in 1..Len(map) :
                              reference_score(r, map[j]) <= reference_score(r, map[i])}
    IN  IF eligible = {} THEN None
        ELSE Some(map[CHOOSE i \in eligible : \A j \in eligible : i <= j])

\* C6: best-match scoring returns the first candidate in iteration order
\* among those of maximum score under the reference rule (10 for the tag, 2
\* per equal attribute, 5 within 50 px on both axes) if that score is at
\* least 15, and nothing otherwise.
C6_ScoringMatchesReferenceRule ==
    phase = "scored" => out_fresh = reference_result(in_node, in_map)

C6_Witness ==
    /\ phase = "scored"
    /\ Len(in_map) = 2
    /\ reference_score(in_node, in_map[1]) = 17
    /\ reference_score(in_node, in_map[2]) = 17
    /\ out_fresh = Some(in_map[1])

\* Candidates that share tag, an equal attribute and lie within 50 px
full_matches(r, map) ==
    {i \in 1..Len(map) :
        /\ same_tag(r.node_name, map[i].node_name)
        /\ r.attributes \cap map[i].attributes /= {}
        /\ within_50px(r, map[i])}

\* A candidate that shares only the tag name with the reference
tag_only(r, c) ==
    /\ same_tag(r.node_name, c.node_name)
    /\ r.attributes \cap c.attributes = {}
    /\ ~within_50px(r, c)

index_hits(r, map) == {i \in 1..Len(map) : map[i].element_index = r.element_index}

\* C7 as claimed: the resolver selects the unique candidate sharing tag, an
\* equal attribute and lying within 50 px when exactly one exists, and never
\* returns a candidate that shares only the tag name.
C7_ResolverSelectsUniqueFullMatch ==
    phase = "resolved" =>
        /\ \A u \in full_matches(in_node, in_map) :
              full_matches(in_node, in_map) = {u} => out_fresh = Some(in_map[u])
        /\ out_fresh /= None => ~tag_only(in_node, out_fresh[1])

\* C7 as amended: when the fresh index holds the reference's element index
\* the resolver returns the element stored there, whatever it resembles;
\* otherwise it never returns a tag-only candidate, and it selects the
\* unique candidate sharing tag, an equal attribute and lying within 50 px
\* whenever every other candidate scores lower.
C7_ResolverIndexHitElseBestMatch ==
    phase = "resolved" =>
        /\ \A h \in index_hits(in_node, in_map) : out_fresh = Some(in_map[h])
        /\ index_hits(in_node, in_map) = {} =>
              /\ out_fresh /= None => ~tag_only(in_node, out_fresh[1])
              /\ \A u \in full_matches(in_node, in_map) :
                    (/\ full_matches(in_node, in_map) = {u}
                     /\ \A j \in 1..Len(in_map) \ {u} :
                           reference_score(in_node, in_map[j])
                               < reference_score(in_node, in_map[u]))
                    => out_fresh = Some(in_map[u])

C7_Witness ==
    /\ phase = "resolved"
    /\ index_hits(in_node, in_map) = {}
    /\ Len(in_map) = 2
    /\ tag_only(in_node, in_map[1])
    /\ full_matches(in_node, in_map) = {2}
    /\ out_fresh = Some(in_map[2])

\* C33 as claimed: every candidate accepted by best-match scoring has the
\* reference's tag name, case-insensitively, and at least one further matching
\* signal: an equal attribute value or a position within 50 px.
C33_AcceptedCandidateSharesTag ==
    (phase = "scored" /\ out_fresh /= None) =>
        /\ same_tag(in_node.node_name, out_fresh[1].node_name)
        /\ \/ in_node.attributes \cap out_fresh[1].attributes /= {}
           \/ within_50px(in_node, out_fresh[1])

\* C33 as amended: an accepted candidate with the reference's tag name has
\* at least one further matching signal; an accepted candidate with another
\* tag name has reached the threshold without the tag: 2 per equal attribute
\* value plus 5 for a position within 50 px give at least 15.
C33_AcceptedCandidateReachesThreshold ==
    (phase = "scored" /\ out_fresh /= None) =>
        IF same_tag(in_node.node_name, out_fresh[1].node_name)
        THEN \/ in_node.attributes \cap out_fresh[1].attributes /= {}
             \/ within_50px(in_node, out_fresh[1])
        ELSE 2 * Cardinality(in_node.attributes \cap out_fresh[1].attributes)
                + (IF within_50px(in_node, out_fresh[1]) THEN 5 ELSE 0) >= 15

C33_Witness ==
    /\ phase = "scored"
    /\ out_fresh /= None
    /\ ~same_tag(in_node.node_name, out_fresh[1].node_name)
    /\ Cardinality(in_node.attributes \cap out_fresh[1].attributes) = 5
    /\ within_50px(in_node, out_fresh[1])

\* C27: the resolver first looks up the reference's element index in the
\* current index and on a hit returns the element stored there without any
\* scoring, whatever its tag, attributes or position; best-match scoring over
\* the whole index runs only on a miss; an empty or unavailable index yields
\* nothing.
C27_IndexLookupBeforeScoring ==
    phase = "resolved" =>
        IF in_map = <<>> THEN out_fresh = None
        ELSE IF index_hits(in_node, in_map) /= {}
        THEN \A h \in index_hits(in_node, in_map) : out_fresh = Some(in_map[h])
        ELSE out_fresh = reference_result(in_node, in_map)

C27_Witness ==
    /\ phase = "resolved"
    /\ Len(in_map) = 2
    /\ index_hits(in_node, in_map) = {1}
    /\ reference_score(in_node, in_map[1]) = 0
    /\ reference_score(in_node, in_map[2]) >= 15
    /\ out_fresh = Some(in_map[1])

\* The error messages that contain an indicator substring
IndicatorMessages ==
    { <<"Node", "not", "found">>,
      <<"Error", "node", "not", "found", "in", "document">>,
      <<"Could", "not", "find", "node", "with", "given", "id">>,
      <<"Invalid", "node", "id">>,
      <<"Node", "is", "not", "attached">>,
      <<"Disconnected", "frame">>,
      <<"Execution", "context", "destroyed">> }

----------------------------------------------------------------------------
(* The polling loops, one step per execution of a loop body *)

check_interval == 1             \* 0.5 s
stable_duration_required == 4   \* 2.0 s
stabilization_timeout == 30     \* 15.0 s
spa_timeout == 16               \* 8.0 s
lazy_images_timeout == 10       \* 5.0 s
dynamic_lists_timeout == 10     \* 5.0 s
page_load_max_wait == 60        \* 30.0 s
challenge_max_wait == 30        \* 15.0 s
form_max_wait == 20             \* 10.0 s

Loops == {"stabilization", "spa", "page_load", "challenge", "form"}

\* What _get_content_hash can answer; "0" is its answer when the inspection fails
ContentHashes == {"0", "h1"}

\* A Runtime.evaluate that raises, or the fields of the value it returns
Raises == [raise |-> TRUE]
SpaResults ==
    {Raises} \cup {[raise |-> FALSE, isSPA |-> a, contentReady |-> b] : a, b \in BOOLEAN}
ImageResults ==
    {Raises} \cup {[raise |-> FALSE, hasLazyImages |-> a, allLoaded |-> b] : a, b \in BOOLEAN}
ListResults ==
    {Raises} \cup {[raise |-> FALSE, emptyLists |-> n] : n \in 0..2}
PageStates ==
    {Raises} \cup {[raise |-> FALSE, isDocumentReady |-> a, hasVisibleLoading |-> b] :
                        a \in BOOLEAN, b \in {"true", "false", "missing"}}
ChallengeResults ==
    {Raises} \cup {[raise |-> FALSE, value |-> v] : v \in {"true", "false", "missing"}}

PollInit ==
    /\ loop \in Loops
    /\ poll_pc = IF loop = "form" THEN "capture" ELSE "poll"
    /\ elapsed = 0
    /\ iterations = 0
    /\ outcome = ""
    /\ last_content_hash = None
    /\ stable_start_time = None
    /\ observed = <<>>
    /\ initial_empty = 0
    /\ stab_history = [all_unstable |-> TRUE, logged |-> {}]
    /\ pre_submit_state = None
    /\ current_state = None
    /\ cls_pc = "off"
    /\ cls_error = None
    /\ classification = None
    /\ attempt_number = 0
    /\ strategy = None
    /\ network_failure_count = [u \in {} |-> 0]
    /\ last_network_failure = [u \in {} |-> 0]
    /\ net_now = 0
    /\ net_proc = [p \in {} |-> 0]
    /\ net_events = 0
    /\ net_sent = <<>>
    /\ failures_since_reset = [u \in {} |-> 0]
    /\ last_net = <<>>
    /\ retry_counts = [k \in {} |-> 0]
    /\ last_dom_rebuild = 0
    /\ now = rebuild_min_interval
    /\ proc = [p \in Procs |-> IdleProc]
    /\ selector_map = <<N1, N2>>
    /\ errors = <<>>
    /\ rebuilds = <<>>
    /\ attempts = [k \in RetryKeys |-> 0]
    /\ events = 0
    /\ last_op = Op("init", 0)
    /\ last_event = NoEvent
    /\ lookups = 0
    /\ phase = "off"
    /\ in_node = N1
    /\ in_map = <<>>
    /\ in_desc = SessionFails
    /\ out_fresh = None
    /\ out_stale = FALSE
    /\ f_handler = "none"
    /\ f_site = 0
    /\ f_status = "returned"
    /\ f_failed = {}
    /\ loading_retry_count = [u \in {} |-> 0]
    /\ navigation_attempts = [u \in {} |-> 0]
    /\ nav_proc = [p \in {} |-> 0]
    /\ nav_events = 0
    /\ reloads = [u \in {} |-> 0]
    /\ grants_since_reset = [u \in {} |-> 0]
    /\ last_nav = <<>>

NavigationSteps == {"page_load", "antibot_detect", "antibot_handle", "challenge", "content"}

after_step_without_content(l) ==
    CASE l = "page_load" -> "antibot_detect"
      [] OTHER -> "none"

\* on_NavigationCompleteEvent of EnhancedNavigationWatchdog runs page-load
\* verification, anti-bot detection and handling, and the content check one
\* after the other
after_step(l) ==
    CASE l = "page_load" -> "antibot_detect"
      [] l = "content" -> "none"
      [] OTHER -> "content"

\* _ensure_dynamic_content_loaded runs its three waits one after the other
next_wait(l) ==
    CASE l = "spa" -> "lazy_images"
      [] l = "lazy_images" -> "dynamic_lists_initial"
      [] l \in NavigationSteps -> after_step(l)
      [] OTHER -> "none"

\* The loop ends with outcome o: the next wait of the handler starts, or the
\* handler is through
leave_loop(o) ==
    /\ outcome' = o
    /\ IF next_wait(loop) /= "none"
       THEN /\ loop' = next_wait(loop)
            /\ elapsed' = 0
            /\ iterations' = 0
            /\ poll_pc' = "poll"
       ELSE /\ poll_pc' = "done"
            /\ iterations' = iterations + 1
            /\ UNCHANGED <<loop, elapsed>>

\* `await asyncio.sleep(dt)` and the loop condition that follows it
sleep_and_test(dt, timeout) ==
    IF elapsed + dt >= timeout
    THEN leave_loop("timeout")
    ELSE /\ elapsed' = elapsed + dt
         /\ iterations' = iterations + 1
         /\ UNCHANGED <<loop, poll_pc, outcome>>

\* The observations of the last ticks
last_ticks(w) == IF Len(w) > stable_duration_required + 2 THEN Tail(w) ELSE w

stable_long_enough_strict(stabilization_time, start) ==
    stabilization_time - start > stable_duration_required

\* `stabilization_time - stable_start_time >= stable_duration_required`
stable_long_enough(stabilization_time, start) ==
    stabilization_time - start >= stable_duration_required

timeout_reached_strict(stabilization_time) == stabilization_time > stabilization_timeout

\* `if stabilization_time >= timeout` after the loop
timeout_reached(stabilization_time) == stabilization_time >= stabilization_timeout

\* What _wait_for_content_stabilization has logged when it leaves at time t
logged_at_exit(t, broke) ==
    (IF broke THEN {"stabilized"} ELSE {})
        \cup (IF timeout_reached(t) THEN {"timeout"} ELSE {})

wait_for_content_stabilization(content_hash, is_loading) ==
    /\ loop = "stabilization"
    /\ poll_pc = "poll"
    /\ UNCHANGED initial_empty
    /\ UNCHANGED notPoll
    /\ UNCHANGED formVars
    /\ IF /\ Some(content_hash) = last_content_hash
          /\ stable_start_time /= None
          /\ stable_long_enough(elapsed, stable_start_time[1])
       THEN \* break: the loading activity of this tick is not inspected; the
            \* history keeps what the page would have answered
            /\ leave_loop("stabilized")
            /\ observed' = last_ticks(Append(observed,
                                [content_hash |-> content_hash, is_loading |-> is_loading]))
            /\ stab_history' = [all_unstable |-> FALSE,
                                logged |-> logged_at_exit(elapsed, TRUE)]
            /\ UNCHANGED <<last_content_hash, stable_start_time>>
       ELSE /\ last_content_hash' = Some(content_hash)
            /\ stable_start_time' =
                    IF is_loading \/ Some(content_hash) /= last_content_hash THEN None
                    ELSE IF stable_start_time = None THEN Some(elapsed)
                    ELSE stable_start_time
            /\ observed' = last_ticks(Append(observed,
                                [content_hash |-> content_hash, is_loading |-> is_loading]))
            /\ stab_history' =
                    [all_unstable |->
                        /\ stab_history.all_unstable
                        /\ (is_loading \/ Some(content_hash) /= last_content_hash),
                     logged |->
                        IF elapsed + check_interval >= stabilization_timeout
                        THEN logged_at_exit(elapsed + check_interval, FALSE)
                        ELSE {}]
            /\ sleep_and_test(check_interval, stabilization_timeout)

wait_for_spa_content(result) ==
    /\ loop = "spa"
    /\ poll_pc = "poll"
    /\ UNCHANGED <<last_content_hash, stable_start_time, observed, initial_empty,
                   stab_history>>
    /\ UNCHANGED notPoll
    /\ UNCHANGED formVars
    /\ IF result.raise THEN leave_loop("failed")
       ELSE IF ~result.isSPA \/ result.contentReady THEN leave_loop("ready")
       ELSE sleep_and_test(check_interval, spa_timeout)

wait_for_lazy_loaded_images(result) ==
    /\ loop = "lazy_images"
    /\ poll_pc = "poll"
    /\ UNCHANGED <<last_content_hash, stable_start_time, observed, initial_empty,
                   stab_history>>
    /\ UNCHANGED notPoll
    /\ UNCHANGED formVars
    /\ IF result.raise THEN leave_loop("failed")
       ELSE IF ~result.hasLazyImages \/ result.allLoaded THEN leave_loop("ready")
       ELSE sleep_and_test(check_interval, lazy_images_timeout)

\* _wait_for_dynamic_lists up to its loop
wait_for_dynamic_lists_initial(initial_result) ==
    /\ loop = "dynamic_lists_initial"
    /\ poll_pc = "poll"
    /\ UNCHANGED <<last_content_hash, stable_start_time, observed, stab_history>>
    /\ UNCHANGED notPoll
    /\ UNCHANGED formVars
    /\ IF initial_result.raise \/ initial_result.emptyLists = 0
       THEN /\ leave_loop(IF initial_result.raise THEN "failed" ELSE "ready")
            /\ UNCHANGED initial_empty
       ELSE /\ initial_empty' = initial_result.emptyLists
            /\ loop' = "dynamic_lists"
            /\ UNCHANGED <<poll_pc, elapsed, iterations, outcome>>

wait_for_dynamic_lists(result) ==
    /\ loop = "dynamic_lists"
    /\ poll_pc = "poll"
    /\ UNCHANGED <<last_content_hash, stable_start_time, observed, initial_empty,
                   stab_history>>
    /\ UNCHANGED notPoll
    /\ UNCHANGED formVars
    /\ IF result.raise THEN leave_loop("failed")
       ELSE IF result.emptyLists < initial_empty THEN leave_loop("ready")
       ELSE sleep_and_test(check_interval, dynamic_lists_timeout)

\* The inspection took `delay` ticks of the clock that the loop condition reads
verify_page_loaded(page_state, delay) ==
    /\ loop = "page_load"
    /\ poll_pc = "poll"
    /\ UNCHANGED <<last_content_hash, stable_start_time, observed, initial_empty,
                   stab_history>>
    /\ UNCHANGED notPoll
    /\ UNCHANGED formVars
    /\ IF page_state.raise THEN sleep_and_test(2 + delay, page_load_max_wait)
       ELSE IF page_state.isDocumentReady /\ page_state.hasVisibleLoading = "false"
            THEN leave_loop("loaded")
       ELSE IF page_state.hasVisibleLoading = "true"
            THEN sleep_and_test(4 + delay, page_load_max_wait)
       ELSE IF page_state.isDocumentReady THEN leave_loop("loaded")
       ELSE sleep_and_test(2 + delay, page_load_max_wait)

wait_for_challenge_resolution(result, delay) ==
    /\ loop = "challenge"
    /\ poll_pc = "poll"
    /\ UNCHANGED <<last_content_hash, stable_start_time, observed, initial_empty,
                   stab_history>>
    /\ UNCHANGED notPoll
    /\ UNCHANGED formVars
    /\ IF ~result.raise /\ result.value = "false" THEN leave_loop("resolved")
       ELSE sleep_and_test(2 + delay, challenge_max_wait)

\* What the detection script of _detect_and_handle_antibot can answer
DetectResults ==
    {Raises} \cup {[raise |-> FALSE, challengeFound |-> f] : f \in BOOLEAN}

\* A step of the handler starts without a loop of its own
enter_step(o, l) ==
    /\ outcome' = o
    /\ loop' = l
    /\ elapsed' = 0
    /\ iterations' = 0
    /\ poll_pc' = "poll"

\* _detect_and_handle_antibot up to the call of _handle_antibot_challenge: a
\* failing session or script is logged by its `except Exception`
detect_and_handle_antibot(result) ==
    /\ loop = "antibot_detect"
    /\ poll_pc = "poll"
    /\ UNCHANGED <<last_content_hash, stable_start_time, observed, initial_empty,
                   stab_history>>
    /\ UNCHANGED notPoll
    /\ UNCHANGED formVars
    /\ IF result.raise THEN leave_loop("detection_failed")
       ELSE IF result.challengeFound THEN enter_step("challenge_found", "antibot_handle")
       ELSE leave_loop("no_challenge")

\* _handle_antibot_challenge up to the call of _wait_for_challenge_resolution:
\* a failing session or click is logged by its `except Exception`
handle_antibot_challenge(raises) ==
    /\ loop = "antibot_handle"
    /\ poll_pc = "poll"
    /\ UNCHANGED <<last_content_hash, stable_start_time, observed, initial_empty,
                   stab_history>>
    /\ UNCHANGED notPoll
    /\ UNCHANGED formVars
    /\ IF raises THEN leave_loop("handling_failed")
       ELSE enter_step("handled", "challenge")

\* _verify_content_loaded is called and makes its check, or fails and logs it
verify_content_loaded(raises) ==
    /\ loop = "content"
    /\ poll_pc = "poll"
    /\ UNCHANGED <<last_content_hash, stable_start_time, observed, initial_empty,
                   stab_history>>
    /\ UNCHANGED notPoll
    /\ UNCHANGED formVars
    /\ leave_loop(IF raises THEN "content_check_failed" ELSE "content_checked")

\* The page state of _capture_page_state: `{}` when the evaluation failed or
\* returned no value, so that every `.get` answers its default
EmptyState ==
    [url |-> "", hasSuccessMessages |-> FALSE, hasErrorMessages |-> FALSE,
     hasLoadingIndicators |-> FALSE]

FormUrls == {"/form", "/thanks"}

PageSnapshots ==
    {EmptyState} \cup
    [url : FormUrls, hasSuccessMessages : BOOLEAN, hasErrorMessages : BOOLEAN,
     hasLoadingIndicators : BOOLEAN]

\* _track_form_submission up to the call of _verify_form_submission_success
track_form_submission(agent_focus, state) ==
    /\ loop = "form"
    /\ poll_pc = "capture"
    /\ IF ~agent_focus
       THEN /\ poll_pc' = "done"
            /\ UNCHANGED pre_submit_state
       ELSE /\ poll_pc' = "poll"
            /\ pre_submit_state' = Some(state)
    /\ UNCHANGED <<loop, elapsed, iterations, outcome, current_state>>
    /\ UNCHANGED <<last_content_hash, stable_start_time, observed, initial_empty,
                   stab_history>>
    /\ UNCHANGED notPoll

form_transition_error_first(state, baseline) ==
    IF state.hasErrorMessages THEN "error"
    ELSE IF state.url /= baseline.url \/ state.hasSuccessMessages THEN "success"
    ELSE IF state.hasLoadingIndicators THEN "loading"
    ELSE "none"

\* The four tests of the loop body, in the order of the code
form_transition(state, baseline) ==
    IF state.url /= baseline.url THEN "success"
    ELSE IF state.hasSuccessMessages THEN "success"
    ELSE IF state.hasErrorMessages THEN "error"
    ELSE IF state.hasLoadingIndicators THEN "loading"
    ELSE "none"

\* `await asyncio.sleep(dt); elapsed += dt` and `while elapsed < max_wait_time`
form_sleep_and_test(dt) ==
    /\ iterations' = iterations + 1
    /\ IF elapsed + dt >= form_max_wait
       THEN /\ poll_pc' = "final"
            /\ UNCHANGED <<loop, elapsed, outcome>>
       ELSE /\ elapsed' = elapsed + dt
            /\ UNCHANGED <<loop, poll_pc, outcome>>

form_loading_no_advance(t) == t

\* `elapsed += check_interval * 2` before the `continue`
form_loading_advance(t) == t + check_interval * 2

\* One execution of the body of the loop of _verify_form_submission_success
verify_form_submission_success(state) ==
    /\ loop = "form"
    /\ poll_pc = "poll"
    /\ current_state' = Some(state)
    /\ UNCHANGED pre_submit_state
    /\ UNCHANGED <<last_content_hash, stable_start_time, observed, initial_empty,
                   stab_history>>
    /\ UNCHANGED notPoll
    /\ LET transition == form_transition(state, pre_submit_state[1])
       IN  CASE transition = "success" -> leave_loop("success")
             [] transition = "error" -> leave_loop("error")
             [] transition = "loading" ->
                    form_sleep_and_test(form_loading_advance(elapsed) - elapsed)
             [] OTHER -> form_sleep_and_test(check_interval)

\* After the loop: `final_state` and the warning "Form submission unclear"
form_final_state(state) ==
    /\ loop = "form"
    /\ poll_pc = "final"
    /\ current_state' = Some(state)
    /\ poll_pc' = "done"
    /\ outcome' = IF state.url = pre_submit_state[1].url /\ ~state.hasSuccessMessages
                  THEN "unclear"
                  ELSE ""
    /\ UNCHANGED <<loop, elapsed, iterations, pre_submit_state>>
    /\ UNCHANGED <<last_content_hash, stable_start_time, observed, initial_empty,
                   stab_history>>
    /\ UNCHANGED notPoll

PollNext ==
    \/ \E h \in ContentHashes, l \in BOOLEAN : wait_for_content_stabilization(h, l)
    \/ \E r \in SpaResults : wait_for_spa_content(r)
    \/ \E r \in ImageResults : wait_for_lazy_loaded_images(r)
    \/ \E r \in ListResults : wait_for_dynamic_lists_initial(r)
    \/ \E r \in ListResults : wait_for_dynamic_lists(r)
    \/ \E s \in PageStates, d \in 0..MaxDelay : verify_page_loaded(s, d)
    \/ \E r \in DetectResults : detect_and_handle_antibot(r)
    \/ \E raises \in BOOLEAN : handle_antibot_challenge(raises)
    \/ \E r \in ChallengeResults, d \in 0..MaxDelay : wait_for_challenge_resolution(r, d)
    \/ \E raises \in BOOLEAN : verify_content_loaded(raises)
    \/ \E f \in BOOLEAN, s \in PageSnapshots : track_form_submission(f, s)
    \/ \E s \in PageSnapshots : verify_form_submission_success(s)
    \/ \E s \in PageSnapshots : form_final_state(s)

SpecPoll == PollInit /\ [][PollNext]_vars

\* Every inspection call returns or fails in finite time and time advances
SpecPollFair == PollInit /\ [][PollNext]_vars /\ WF_vars(PollNext)

----------------------------------------------------------------------------
(* The polling loops: properties *)

\* The most executions of its body a loop can make
iteration_bound(l) ==
    CASE l = "stabilization" -> 30
      [] l = "spa" -> 16
      [] l = "lazy_images" -> 10
      [] l = "dynamic_lists_initial" -> 1
      [] l = "dynamic_lists" -> 10
      [] l = "page_load" -> 30
      [] l = "challenge" -> 15
      [] l = "form" -> 20
      [] l = "content" -> 1
      [] OTHER -> 0

\* C2: every polling loop leaves after a bounded number of executions of its
\* body whatever the page reports, and its handler completes.
C2_PollLoopsTerminate ==
    /\ [](iterations <= iteration_bound(loop))
    /\ <>(poll_pc = "done")

C2_Witness ==
    /\ loop = "stabilization"
    /\ poll_pc = "done"
    /\ outcome = "timeout"
    /\ iterations = 30

\* A step of the stabilization loop
StabilizationTick ==
    /\ loop = "stabilization"
    /\ poll_pc = "poll"
    /\ observed' /= observed \/ iterations' /= iterations

all_equal(w) == \A i, j \in 1..Len(w) : w[i].content_hash = w[j].content_hash

\* C10 as claimed: the loop leaves as stabilized at the first tick t such that
\* the fingerprints of the ticks in [t - 2.0 s, t] are equal and no loading
\* activity was observed in that interval.
C10_StabilizedAfterTwoSeconds ==
    [][StabilizationTick =>
        (outcome' = "stabilized" <=>
            /\ Len(observed') >= 5
            /\ all_equal(SubSeq(observed', Len(observed') - 4, Len(observed')))
            /\ \A i \in (Len(observed') - 4)..Len(observed') : ~observed'[i].is_loading)]_vars

\* C10 as amended: the loop leaves as stabilized at the first tick t before
\* the timeout such that the six fingerprints of the ticks in [t - 2.5 s, t]
\* are equal and no loading activity was observed at the ticks in
\* [t - 2.0 s, t - 0.5 s]; the loading activity of tick t is not inspected.
C10_StabilizedAfterSixEqualTicks ==
    [][StabilizationTick =>
        (outcome' = "stabilized" <=>
            /\ Len(observed') = 6
            /\ all_equal(observed')
            /\ \A i \in 2..5 : ~observed'[i].is_loading)]_vars

C10_Witness ==
    /\ loop = "stabilization"
    /\ outcome = "stabilized"
    /\ elapsed = 5
    /\ iterations = 6

\* C11: when at every tick of the timeout the fingerprint differed from the
\* previous tick's or loading activity was observed, the stabilization loop
\* ends with the timeout warning and nothing else; and no call logs both
\* the stabilized and the timeout outcome.
C11_PersistentInstabilityTimesOut ==
    /\ (loop = "stabilization" /\ poll_pc = "done" /\ stab_history.all_unstable) =>
            /\ stab_history.logged = {"timeout"}
            /\ outcome = "timeout"
            /\ errors = <<>>
    /\ stab_history.logged /= {"stabilized", "timeout"}
    /\ (loop = "stabilization" /\ poll_pc = "done") => stab_history.logged /= {}

C11_Witness ==
    /\ loop = "stabilization"
    /\ poll_pc = "done"
    /\ stab_history.all_unstable
    /\ stab_history.logged = {"timeout"}
    /\ iterations = 30

\* C12: a tick whose fingerprint computation failed (its fingerprint is the
\* default "0") and at which no loading activity was observed never resets
\* the stability window: the window open before the tick is open after it,
\* or the loop leaves as stabilized.
C12_FailedFingerprintKeepsWindow ==
    [][(/\ StabilizationTick
        /\ stable_start_time /= None
        /\ observed'[Len(observed')].content_hash = "0"
        /\ ~observed'[Len(observed')].is_loading)
       => (stable_start_time' = stable_start_time \/ outcome' = "stabilized")]_vars

\* C31: the loop leaves as stabilized only if at least 2.0 s have passed
\* since stable_start_time was set and, at every tick from the one that set
\* it through the leaving tick, the fingerprint equalled the one of the tick
\* before and the page's loading activity was false.
C31_StabilizedOnlyAfterQuietWindow ==
    [][(StabilizationTick /\ outcome' = "stabilized") =>
        /\ stable_start_time /= None
        /\ elapsed - stable_start_time[1] >= 4
        /\ LET n == Len(observed')
               first == n - (elapsed - stable_start_time[1])
           IN  /\ first >= 2
               /\ \A i \in first..n :
                    /\ observed'[i].content_hash = observed'[i - 1].content_hash
                    /\ ~observed'[i].is_loading]_vars

\* The steps of on_NavigationCompleteEvent before the content check
BeforeContentCheck == {"page_load", "antibot_detect", "antibot_handle", "challenge"}

\* C32: a NavigationComplete without error always reaches the content check:
\* whatever page-load verification and anti-bot handling answer, time out on
\* or fail with, _verify_content_loaded is started afterwards.
C32_ContentCheckAlwaysReached ==
    (loop \in BeforeContentCheck /\ poll_pc = "poll") ~> (loop = "content")

\* The content check starts after a challenge that was not resolved in time
C32_Witness ==
    /\ loop = "content"
    /\ poll_pc = "poll"
    /\ outcome = "timeout"

----------------------------------------------------------------------------
(* The event handlers and the calls they make that can fail *)

\* f_site before the handler's first call, and after its return
START == -1
END == 0

\* A call site: what is called, whether a try/except of the handler or of the
\* method that makes the call encloses it, and the sites control can reach
\* next when the call returns and when it raises
Site(call, kind, guarded, next, fail) ==
    [call |-> call, kind |-> kind, guarded |-> guarded, next |-> next, fail |-> fail]

\* ElementStalenessWatchdog._handle_element_action_with_staleness_check
StalenessSites ==
    << Site("get_or_create_cdp_session", "session", TRUE, {2}, {END}),
       Site("DOM.describeNode", "session", TRUE, {END, 3, 4, 5, 6}, {END, 3, 4, 5, 6}),
       Site("dispatch BrowserErrorEvent", "dispatch", TRUE, {END}, {END}),
       Site("clear_cache", "dom_sync", TRUE, {5}, {6}),
       Site("dispatch BrowserStateRequestEvent", "dispatch", TRUE, {6}, {6}),
       Site("selector_map.get", "dom_sync", TRUE, {END}, {END}) >>

\* FormReliabilityWatchdog.on_ClickElementEvent with _is_likely_submit_button
\* and _track_form_submission
FormClickSites ==
    << Site("get_all_children_text", "accessor", FALSE, {END, 2}, {}),
       Site("get_or_create_cdp_session", "session", TRUE, {3}, {END}),
       Site("Runtime.evaluate", "session", TRUE, {4}, {4}),
       Site("get_all_children_text", "accessor", TRUE, {5}, {END}),
       Site("Runtime.evaluate", "session", TRUE, {END, 5}, {END}) >>

\* FormReliabilityWatchdog.on_TypeTextEvent with _verify_input_success
FormTypeSites ==
    << Site("get_or_create_cdp_session", "session", TRUE, {END, 2}, {END}),
       Site("Runtime.evaluate", "session", TRUE, {END}, {END}) >>

\* FormReliabilityWatchdog.on_SendKeysEvent with _detect_form_submission_by_enter
FormSendKeysSites ==
    << Site("get_or_create_cdp_session", "session", TRUE, {2}, {END}),
       Site("Runtime.evaluate", "session", TRUE, {END}, {END}) >>

\* EnhancedNavigationWatchdog.on_NavigationCompleteEvent: page load, anti-bot
\* detection and handling, content verification, reload
NavigationCompleteSites ==
    << Site("get_or_create_cdp_session", "session", TRUE, {2}, {1, 3}),
       Site("Runtime.evaluate", "session", TRUE, {1, 3}, {1, 3}),
       Site("get_or_create_cdp_session", "session", TRUE, {4}, {7}),
       Site("Runtime.evaluate", "session", TRUE, {5, 7}, {7}),
       Site("get_or_create_cdp_session", "session", TRUE, {6}, {7}),
       Site("Runtime.evaluate", "session", TRUE, {6, 7}, {6, 7}),
       Site("get_or_create_cdp_session", "session", TRUE, {8}, {END}),
       Site("Runtime.evaluate", "session", TRUE, {END, 9}, {END}),
       Site("Page.reload", "session", TRUE, {END}, {END}) >>

\* NetworkReliabilityWatchdog.on_NavigationCompleteEvent with _handle_network_error
NetworkCompleteSites ==
    << Site("get_or_create_cdp_session", "session", TRUE, {2}, {END}),
       Site("Runtime.evaluate", "session", TRUE, {3, 4}, {END}),
       Site("Page.reload", "session", TRUE, {END}, {END}),
       Site("dispatch NavigateToUrlEvent", "dispatch", TRUE, {END}, {END}) >>

\* DynamicContentWatchdog.on_NavigationCompleteEvent with
\* _start_dynamic_content_monitoring
ContentCompleteSites ==
    << Site("get_or_create_cdp_session", "session", TRUE, {2}, {END}),
       Site("Network.enable", "session", TRUE, {3}, {3}),
       Site("Runtime.evaluate", "session", TRUE, {END, 3}, {END, 3}) >>

\* DynamicContentWatchdog.on_BrowserStateRequestEvent with
\* _ensure_dynamic_content_loaded
ContentStateRequestSites ==
    << Site("get_or_create_cdp_session", "session", TRUE, {2}, {END}),
       Site("Runtime.evaluate", "session", TRUE, {2, 3}, {3}),
       Site("Runtime.evaluate", "session", TRUE, {3, 4}, {4}),
       Site("Runtime.evaluate", "session", TRUE, {END, 4}, {END}) >>

HandlerNames ==
    { "ElementStalenessWatchdog.on_ClickElementEvent",
      "ElementStalenessWatchdog.on_TypeTextEvent",
      "ElementStalenessWatchdog.on_UploadFileEvent",
      "ElementStalenessWatchdog.on_ScrollEvent",
      "EnhancedNavigationWatchdog.on_NavigationStartedEvent",
      "EnhancedNavigationWatchdog.on_NavigationCompleteEvent",
      "FormReliabilityWatchdog.on_ClickElementEvent",
      "FormReliabilityWatchdog.on_TypeTextEvent",
      "FormReliabilityWatchdog.on_SendKeysEvent",
      "NetworkReliabilityWatchdog.on_NavigationStartedEvent",
      "NetworkReliabilityWatchdog.on_NavigationCompleteEvent",
      "DynamicContentWatchdog.on_NavigationCompleteEvent",
      "DynamicContentWatchdog.on_BrowserStateRequestEvent" }

\* The fallible calls of a handler, in the order of the source
HandlerSites(h) ==
    CASE h \in { "ElementStalenessWatchdog.on_ClickElementEvent",
                 "ElementStalenessWatchdog.on_TypeTextEvent",
                 "ElementStalenessWatchdog.on_UploadFileEvent",
                 "ElementStalenessWatchdog.on_ScrollEvent" } -> StalenessSites
      [] h = "EnhancedNavigationWatchdog.on_NavigationCompleteEvent" -> NavigationCompleteSites
      [] h = "FormReliabilityWatchdog.on_ClickElementEvent" -> FormClickSites
      [] h = "FormReliabilityWatchdog.on_TypeTextEvent" -> FormTypeSites
      [] h = "FormReliabilityWatchdog.on_SendKeysEvent" -> FormSendKeysSites
      [] h = "NetworkReliabilityWatchdog.on_NavigationCompleteEvent" -> NetworkCompleteSites
      [] h = "DynamicContentWatchdog.on_NavigationCompleteEvent" -> ContentCompleteSites
      [] h = "DynamicContentWatchdog.on_BrowserStateRequestEvent" -> ContentStateRequestSites
      [] OTHER -> <<>>

\* Where a handler can be after the tests it makes before its first call
HandlerEntry(h) ==
    CASE h = "FormReliabilityWatchdog.on_ClickElementEvent" -> {END, 1, 2}
      [] h = "ElementStalenessWatchdog.on_ScrollEvent" -> {END, 1}
      [] h \in { "ElementStalenessWatchdog.on_ClickElementEvent",
                 "ElementStalenessWatchdog.on_TypeTextEvent",
                 "ElementStalenessWatchdog.on_UploadFileEvent" } -> {END, 1}
      [] HandlerSites(h) = <<>> -> {END}
      [] OTHER -> {END, 1}

FaultInit ==
    /\ f_handler \in HandlerNames
    /\ f_site = START
    /\ f_status = "running"
    /\ f_failed = {}
    /\ loading_retry_count = [u \in {} |-> 0]
    /\ navigation_attempts = [u \in {} |-> 0]
    /\ nav_proc = [p \in {} |-> 0]
    /\ nav_events = 0
    /\ reloads = [u \in {} |-> 0]
    /\ grants_since_reset = [u \in {} |-> 0]
    /\ last_nav = <<>>
    /\ retry_counts = [k \in {} |-> 0]
    /\ last_dom_rebuild = 0
    /\ now = rebuild_min_interval
    /\ proc = [p \in Procs |-> IdleProc]
    /\ selector_map = <<N1, N2>>
    /\ errors = <<>>
    /\ rebuilds = <<>>
    /\ attempts = [k \in RetryKeys |-> 0]
    /\ events = 0
    /\ last_op = Op("init", 0)
    /\ last_event = NoEvent
    /\ lookups = 0
    /\ phase = "off"
    /\ in_node = N1
    /\ in_map = <<>>
    /\ in_desc = SessionFails
    /\ out_fresh = None
    /\ out_stale = FALSE
    /\ loop = "none"
    /\ poll_pc = "done"
    /\ elapsed = 0
    /\ iterations = 0
    /\ outcome = ""
    /\ last_content_hash = None
    /\ stable_start_time = None
    /\ observed = <<>>
    /\ initial_empty = 0
    /\ stab_history = [all_unstable |-> TRUE, logged |-> {}]
    /\ pre_submit_state = None
    /\ current_state = None
    /\ cls_pc = "off"
    /\ cls_error = None
    /\ classification = None
    /\ attempt_number = 0
    /\ strategy = None
    /\ network_failure_count = [u \in {} |-> 0]
    /\ last_network_failure = [u \in {} |-> 0]
    /\ net_now = 0
    /\ net_proc = [p \in {} |-> 0]
    /\ net_events = 0
    /\ net_sent = <<>>
    /\ failures_since_reset = [u \in {} |-> 0]
    /\ last_net = <<>>

goto_site(n) ==
    /\ f_site' = n
    /\ f_status' = IF n = END THEN "returned" ELSE "running"

\* The event bus invokes the handler
handler_invoked ==
    /\ f_status = "running"
    /\ f_site = START
    /\ \E n \in HandlerEntry(f_handler) : goto_site(n)
    /\ UNCHANGED <<f_handler, f_failed>>
    /\ UNCHANGED notFault

\* The call at f_site returns
call_returns ==
    /\ f_status = "running"
    /\ f_site \in 1..Len(HandlerSites(f_handler))
    /\ \E n \in HandlerSites(f_handler)[f_site].next : goto_site(n)
    /\ UNCHANGED <<f_handler, f_failed>>
    /\ UNCHANGED notFault

\* The call at f_site raises: an enclosing `except Exception` takes over, or
\* the exception leaves the handler
call_raises ==
    /\ f_status = "running"
    /\ f_site \in 1..Len(HandlerSites(f_handler))
    /\ f_failed' = f_failed \cup {f_site}
    /\ IF HandlerSites(f_handler)[f_site].guarded
       THEN \E n \in HandlerSites(f_handler)[f_site].fail : goto_site(n)
       ELSE f_status' = "raised" /\ f_site' = f_site
    /\ UNCHANGED f_handler
    /\ UNCHANGED notFault

FaultNext ==
    \/ handler_invoked
    \/ call_returns
    \/ call_raises

SpecFault == FaultInit /\ [][FaultNext]_vars

\* C1: whichever browser-session call, DOM-sync call, element accessor or
\* event-bus dispatch fails during handling, the handler returns normally: no
\* exception leaves an event handler.
C1_NoExceptionLeavesHandler == f_status /= "raised"

----------------------------------------------------------------------------
(* EnhancedNavigationWatchdog: the handlers, cut at their suspension points *)

NavProcs == {1, 2}

Urls == {"u1", "u2"}

ErrorMessages_nav == {"", "net::ERR_CONNECTION_RESET"}

max_content_reloads == 2

IdleNav == [pc |-> "idle", url |-> "", error |-> FALSE, steps |-> <<>>]

count_of(counts, url) == IF url \in DOMAIN counts THEN counts[url] ELSE 0

set_count_unless_zero(counts, url, n) ==
    IF n = 0 THEN counts
    ELSE [u \in DOMAIN counts \cup {url} |-> IF u = url THEN n ELSE counts[u]]

set_count(counts, url, n) ==
    [u \in DOMAIN counts \cup {url} |-> IF u = url THEN n ELSE counts[u]]

NavInit ==
    /\ loading_retry_count = [u \in {} |-> 0]
    /\ navigation_attempts = [u \in {} |-> 0]
    /\ nav_proc = [p \in NavProcs |-> IdleNav]
    /\ nav_events = 0
    /\ reloads = [u \in Urls |-> 0]
    /\ grants_since_reset = [u \in Urls |-> 0]
    /\ last_nav = [handler |-> "", url |-> "", error |-> FALSE, steps |-> <<>>,
                   reloaded |-> FALSE]
    /\ retry_counts = [k \in {} |-> 0]
    /\ last_dom_rebuild = 0
    /\ now = rebuild_min_interval
    /\ proc = [p \in Procs |-> IdleProc]
    /\ selector_map = <<N1, N2>>
    /\ errors = <<>>
    /\ rebuilds = <<>>
    /\ attempts = [k \in RetryKeys |-> 0]
    /\ events = 0
    /\ last_op = Op("init", 0)
    /\ last_event = NoEvent
    /\ lookups = 0
    /\ phase = "off"
    /\ in_node = N1
    /\ in_map = <<>>
    /\ in_desc = SessionFails
    /\ out_fresh = None
    /\ out_stale = FALSE
    /\ loop = "none"
    /\ poll_pc = "done"
    /\ elapsed = 0
    /\ iterations = 0
    /\ outcome = ""
    /\ last_content_hash = None
    /\ stable_start_time = None
    /\ observed = <<>>
    /\ initial_empty = 0
    /\ stab_history = [all_unstable |-> TRUE, logged |-> {}]
    /\ pre_submit_state = None
    /\ current_state = None
    /\ cls_pc = "off"
    /\ cls_error = None
    /\ classification = None
    /\ attempt_number = 0
    /\ strategy = None
    /\ network_failure_count = [u \in {} |-> 0]
    /\ last_network_failure = [u \in {} |-> 0]
    /\ net_now = 0
    /\ net_proc = [p \in {} |-> 0]
    /\ net_events = 0
    /\ net_sent = <<>>
    /\ failures_since_reset = [u \in {} |-> 0]
    /\ last_net = <<>>
    /\ f_handler = "none"
    /\ f_site = 0
    /\ f_status = "returned"
    /\ f_failed = {}

\* A handler is started in the lowest free slot
nav_slot_free(p) ==
    /\ nav_proc[p].pc = "idle"
    /\ \A q \in NavProcs : q < p => nav_proc[q].pc /= "idle"
    /\ nav_events < MaxNavEvents

nav_returns(p, handler, reloaded) ==
    /\ last_nav' = [handler |-> handler, url |-> nav_proc[p].url,
                    error |-> nav_proc[p].error, steps |-> nav_proc[p].steps,
                    reloaded |-> reloaded]
    /\ nav_proc' = [nav_proc EXCEPT ![p] = IdleNav]

\* on_NavigationStartedEvent up to `await asyncio.sleep(delay)`
nav_on_NavigationStartedEvent(p, url) ==
    /\ nav_slot_free(p)
    /\ nav_events' = nav_events + 1
    /\ nav_proc' = [nav_proc EXCEPT ![p] = [pc |-> "start_delay", url |-> url, error |-> FALSE,
                                             steps |-> <<>>]]
    /\ UNCHANGED <<loading_retry_count, navigation_attempts, reloads, grants_since_reset,
                   last_nav>>
    /\ UNCHANGED notNav

\* on_NavigationStartedEvent after the delay: the counters of the url
navigation_started_resumes(p) ==
    /\ nav_proc[p].pc = "start_delay"
    /\ navigation_attempts' = set_count(navigation_attempts, nav_proc[p].url,
                                        count_of(navigation_attempts, nav_proc[p].url) + 1)
    /\ loading_retry_count' = set_count(loading_retry_count, nav_proc[p].url, 0)
    /\ grants_since_reset' = [grants_since_reset EXCEPT ![nav_proc[p].url] = 0]
    /\ nav_returns(p, "started", FALSE)
    /\ UNCHANGED <<nav_events, reloads>>
    /\ UNCHANGED notNav

nav_error_ignored(error_message) == FALSE

\* `if event.error_message: ... return`
nav_error_returns(error_message) == error_message /= ""

\* on_NavigationCompleteEvent up to `await asyncio.sleep(1.0)`
nav_on_NavigationCompleteEvent(p, url, error_message) ==
    /\ nav_slot_free(p)
    /\ nav_events' = nav_events + 1
    /\ IF nav_error_returns(error_message)
       THEN /\ last_nav' = [handler |-> "complete", url |-> url, error |-> TRUE,
                            steps |-> <<>>, reloaded |-> FALSE]
            /\ UNCHANGED nav_proc
       ELSE /\ nav_proc' = [nav_proc EXCEPT ![p] =
                                [pc |-> "page_load", url |-> url,
                                 error |-> error_message /= "", steps |-> <<>>]]
            /\ UNCHANGED last_nav
    /\ UNCHANGED <<loading_retry_count, navigation_attempts, reloads, grants_since_reset>>
    /\ UNCHANGED notNav

\* _verify_page_loaded returns, loaded or timed out
page_load_verified(p) ==
    /\ nav_proc[p].pc = "page_load"
    /\ nav_proc' = [nav_proc EXCEPT ![p].pc = "antibot",
                                    ![p].steps = Append(@, "page_load")]
    /\ UNCHANGED <<loading_retry_count, navigation_attempts, nav_events, reloads,
                   grants_since_reset, last_nav>>
    /\ UNCHANGED notNav

\* _detect_and_handle_antibot returns, whatever it found or caught
antibot_handled(p) ==
    /\ nav_proc[p].pc = "antibot"
    /\ nav_proc' = [nav_proc EXCEPT ![p].pc = "content",
                                    ![p].steps = Append(@, "antibot")]
    /\ UNCHANGED <<loading_retry_count, navigation_attempts, nav_events, reloads,
                   grants_since_reset, last_nav>>
    /\ UNCHANGED notNav

reload_allowed_once_more(retry_count) == retry_count <= max_content_reloads

\* `if retry_count < 2`
reload_allowed(retry_count) == retry_count < max_content_reloads

\* _verify_content_loaded from the answer of its Runtime.evaluate, with
\* _consider_page_reload up to `await get_or_create_cdp_session`
content_verified(p, sufficient, failed) ==
    /\ nav_proc[p].pc = "content"
    /\ LET url == nav_proc[p].url
           retry_count == count_of(loading_retry_count, url)
       IN  IF ~failed /\ ~sufficient /\ reload_allowed(retry_count)
           THEN /\ loading_retry_count' = set_count(loading_retry_count, url, retry_count + 1)
                /\ grants_since_reset' = [grants_since_reset EXCEPT ![url] = @ + 1]
                /\ nav_proc' = [nav_proc EXCEPT ![p].pc = "reload",
                                                ![p].steps = Append(@, "content")]
                /\ UNCHANGED last_nav
           ELSE /\ last_nav' = [handler |-> "complete", url |-> url,
                                error |-> nav_proc[p].error,
                                steps |-> Append(nav_proc[p].steps, "content"),
                                reloaded |-> FALSE]
                /\ nav_proc' = [nav_proc EXCEPT ![p] = IdleNav]
                /\ UNCHANGED <<loading_retry_count, grants_since_reset>>
    /\ UNCHANGED <<navigation_attempts, nav_events, reloads>>
    /\ UNCHANGED notNav

\* The rest of _consider_page_reload: the session is there and Page.reload is
\* sent, or the session acquisition raises and the except clause logs it
page_reload_sent(p, session_ok) ==
    /\ nav_proc[p].pc = "reload"
    /\ reloads' = IF session_ok THEN [reloads EXCEPT ![nav_proc[p].url] = @ + 1] ELSE reloads
    /\ nav_returns(p, "complete", session_ok)
    /\ UNCHANGED <<loading_retry_count, navigation_attempts, nav_events, grants_since_reset>>
    /\ UNCHANGED notNav

NavNext ==
    \/ \E p \in NavProcs, u \in Urls : nav_on_NavigationStartedEvent(p, u)
    \/ \E p \in NavProcs : navigation_started_resumes(p)
    \/ \E p \in NavProcs, u \in Urls, e \in ErrorMessages_nav :
            nav_on_NavigationCompleteEvent(p, u, e)
    \/ \E p \in NavProcs : page_load_verified(p)
    \/ \E p \in NavProcs : antibot_handled(p)
    \/ \E p \in NavProcs, sufficient \in BOOLEAN, failed \in BOOLEAN :
            content_verified(p, sufficient, failed)
    \/ \E p \in NavProcs, ok \in BOOLEAN : page_reload_sent(p, ok)

SpecNav == NavInit /\ [][NavNext]_vars

----------------------------------------------------------------------------
(* EnhancedNavigationWatchdog: properties *)

VerificationSteps == <<"page_load", "antibot", "content">>

\* C13: a NavigationComplete without error runs page-load verification, then
\* anti-bot handling, then the content check, in that order and each once; a
\* NavigationComplete with an error runs none of them and issues no reload.
C13_VerificationStepsInOrder ==
    /\ \A p \in NavProcs :
          /\ nav_proc[p].steps = SubSeq(VerificationSteps, 1, Len(nav_proc[p].steps))
          /\ nav_proc[p].error => nav_proc[p].pc = "idle"
    /\ last_nav.handler = "complete" =>
          IF last_nav.error
          THEN last_nav.steps = <<>> /\ ~last_nav.reloaded
          ELSE last_nav.steps = VerificationSteps

C13_Witness ==
    /\ last_nav.handler = "complete"
    /\ ~last_nav.error
    /\ last_nav.steps = VerificationSteps
    /\ last_nav.reloaded

\* C14 as claimed: for each url, over any sequence and interleaving of
\* NavigationStarted and NavigationComplete events, at most 2 reloads are
\* issued because of insufficient content.
C14_AtMostTwoReloadsPerUrl ==
    \A u \in Urls : reloads[u] <= 2

\* Between two resets of a url's counter by on_NavigationStartedEvent at most
\* 2 reloads are decided, so after k processed NavigationStarted events for
\* the url at most 2(k + 1) reloads were sent.
ReloadsBoundedPerStart ==
    \A u \in Urls :
        /\ count_of(loading_retry_count, u) <= 2
        /\ grants_since_reset[u] <= 2
        /\ reloads[u] <= 2 * (count_of(navigation_attempts, u) + 1)

----------------------------------------------------------------------------
(* FormReliabilityWatchdog: properties of the tracking of a submission *)

\* An execution of the body of the polling loop
FormTick ==
    /\ loop = "form"
    /\ poll_pc = "poll"
    /\ vars' /= vars

\* C15: at every poll tick the tests are made in the order URL changed from
\* the baseline, success indicator, error indicator, loading indicator: a
\* changed URL is a success whatever the flags are, a success flag wins over
\* an error flag, and an error flag is a failure even while loading.
C15_TransitionsCheckedInPriorityOrder ==
    [][FormTick =>
        LET state == current_state'[1]
            baseline == pre_submit_state[1]
            url_changed == state.url /= baseline.url
        IN  /\ url_changed => outcome' = "success" /\ poll_pc' = "done"
            /\ state.hasSuccessMessages => outcome' = "success" /\ poll_pc' = "done"
            /\ (~url_changed /\ ~state.hasSuccessMessages /\ state.hasErrorMessages)
                    => outcome' = "error" /\ poll_pc' = "done"
            /\ (~url_changed /\ ~state.hasSuccessMessages /\ ~state.hasErrorMessages)
                    => /\ outcome' = outcome
                       /\ poll_pc' \in {"poll", "final"}
                       /\ poll_pc' = "poll" =>
                            elapsed' = elapsed + (IF state.hasLoadingIndicators THEN 2 ELSE 1)]_vars

C15_Witness ==
    /\ loop = "form"
    /\ poll_pc = "done"
    /\ outcome = "success"
    /\ current_state /= None
    /\ current_state[1].url = pre_submit_state[1].url
    /\ current_state[1].hasSuccessMessages
    /\ current_state[1].hasErrorMessages
    /\ current_state[1].hasLoadingIndicators

\* C16: success is reported through the success indicator only when the flag
\* is newly true, false in the baseline page state and true in a later one:
\* a success indicator present before the submission never yields success by
\* itself.
C16_SuccessIndicatorNewlyTrue ==
    (/\ loop = "form"
     /\ poll_pc = "done"
     /\ outcome = "success"
     /\ current_state[1].url = pre_submit_state[1].url)
        => ~pre_submit_state[1].hasSuccessMessages

\* C17: a tracking that runs to completion ends in exactly one of success,
\* failure and indeterminate, indeterminate exactly when no transition fired
\* before the timeout and the final page state has the baseline URL and no
\* success indicator, and no error event is dispatched.
C17_ExactlyOneOutcome ==
    (loop = "form" /\ poll_pc = "done" /\ pre_submit_state /= None) =>
        /\ outcome \in {"success", "error", "unclear"}
        /\ outcome = "unclear" <=>
                /\ elapsed + 2 >= form_max_wait
                /\ current_state[1].url = pre_submit_state[1].url
                /\ ~current_state[1].hasSuccessMessages
                /\ ~current_state[1].hasErrorMessages
        /\ errors = <<>>

\* C39: a tracking ends in success through a changed URL only when the
\* baseline page state and the page state of the tick were both captured:
\* a capture that failed, before the action or at a poll tick, never leads to
\* the outcome success.
C39_FailedCaptureNeverSuccess ==
    (/\ loop = "form"
     /\ poll_pc = "done"
     /\ outcome = "success")
        => /\ pre_submit_state[1] /= EmptyState
           /\ current_state[1] /= EmptyState

----------------------------------------------------------------------------
(* EnhancedErrorClassifier *)

\* The words of the error texts
ErrorWords ==
    {"net::ERR_CONNECTION_RESET", "connection", "Timeout", "server", "error",
     "Node", "not", "found", "page", "Invalid",
     "index", "forbidden", "configuration"}

\* The pieces of the patterns that occur in a lower-case word: a piece between
\* two `.*` of a pattern is searched as a substring
fragments_in(w) ==
    CASE w = "net::err_connection_reset" -> {"connection", "net::err_", "on"}
      [] w = "connection" -> {"connection", "on"}
      [] w = "timeout" -> {"timeout"}
      [] w = "server" -> {"server"}
      [] w = "error" -> {"error"}
      [] w = "node" -> {"no", "node"}
      [] w = "not" -> {"no", "not"}
      [] w = "found" -> {"found"}
      [] w = "page" -> {"page"}
      [] w = "invalid" -> {"id", "in", "invalid"}
      [] w = "index" -> {"in", "index"}
      [] w = "forbidden" -> {"forbidden", "id"}
      [] w = "configuration" -> {"configuration", "on"}
      [] w = "net::err_cert_authority_invalid" -> {"cert", "id", "in", "invalid", "net::err_"}
      [] OTHER -> {}

\* The eight lists of patterns of EnhancedErrorClassifier.__init__, each pattern
\* as its pieces between `.*`
pattern_groups ==
    [
      network |->
            << <<"net::err_">>,
               <<"connection", "refuse">>,
               <<"connection", "timeout">>,
               <<"dns", "not", "resolv">>,
               <<"name", "not", "resolv">>,
               <<"internet", "disconnect">>,
               <<"network", "chang">>,
               <<"ssl", "protocol", "error">>,
               <<"cert", "error">>,
               <<"failed to fetch">>,
               <<"load", "fail">> >>,
      timing |->
            << <<"timeout">>,
               <<"wait", "timeout">>,
               <<"element", "not", "found", "within">>,
               <<"page", "load", "timeout">>,
               <<"navigation", "timeout">> >>,
      resource |->
            << <<"insufficient", "resource">>,
               <<"memory", "exceed">>,
               <<"disk", "full">>,
               <<"too", "many", "request">>,
               <<"service", "unavailable">>,
               <<"server", "error">>,
               <<"internal", "error">> >>,
      stale_element |->
            << <<"stale", "element">>,
               <<"element", "no", "longer", "attach">>,
               <<"node", "not", "found">>,
               <<"invalid", "node", "id">>,
               <<"element", "reference", "invalid">>,
               <<"execution", "context", "destroy">> >>,
      invalid_input |->
            << <<"invalid", "index">>,
               <<"element", "index", "not", "found">>,
               <<"parameter", "missing">>,
               <<"invalid", "parameter">>,
               <<"malformed", "url">>,
               <<"invalid", "selector">> >>,
      not_found |->
            << <<"not", "found", "in", "browser", "state">>,
               <<"text", "not", "found", "on", "page">>,
               <<"file", "not", "exist">>,
               <<"path", "not", "exist">>,
               <<"page", "not", "found">> >>,
      access_denied |->
            << <<"access", "denied">>,
               <<"permission", "denied">>,
               <<"unauthorized">>,
               <<"forbidden">>,
               <<"authentication", "required">> >>,
      configuration |->
            << <<"cdp", "client", "not", "initialize">>,
               <<"browser", "not", "start">>,
               <<"invalid", "configuration">>,
               <<"missing", "dependency">>,
               <<"incompatible", "version">> >>
    ]

Texts == UNION {[1..n -> ErrorWords] : n \in 0..MaxWords}

\* An exception: str(error) and whether it is an instance of TimeoutError
Errors == [text : Texts, type : {"Exception", "TimeoutError"}]

ErrorCategory ==
    {"retryable_network", "retryable_timing", "retryable_resource",
     "retryable_stale_element", "permanent_invalid_input", "permanent_not_found",
     "permanent_access_denied", "permanent_configuration", "unknown"}

\* Delays in microseconds
RetryDelays == {0, 500000, 20000000, 40000000}

\* random.uniform(0, 1.0), in microseconds
Jitters == {0, 500000, 1000000}

\* ErrorClassificationResult.__init__ with its defaults retry_delay = 0.0 and
\* max_retries = 0
ErrorClassificationResult(category, should_retry, retry_delay, retries) ==
    [category |-> category, should_retry |-> should_retry,
     retry_delay |-> retry_delay, max_retries |-> retries]

RECURSIVE search_from(_, _, _, _)
\* The pieces of pattern from the k-th on occur in this order in s from its
\* i-th word on
search_from(pattern, k, s, i) ==
    IF k > Len(pattern) THEN TRUE
    ELSE IF i > Len(s) THEN FALSE
    ELSE IF pattern[k] \in fragments_in(s[i]) THEN search_from(pattern, k + 1, s, i + 1)
    ELSE search_from(pattern, k, s, i + 1)

\* re.search(pattern, error_str, re.IGNORECASE)
re_search(pattern, error_str) == search_from(pattern, 1, error_str, 1)

\* `for pattern, description in patterns: if re.search(...)` finds a pattern
any_pattern_matches(patterns, error_str) ==
    \E i \in 1..Len(patterns) : re_search(patterns[i], error_str)

first_match_timing_first(error_str) ==
    IF any_pattern_matches(pattern_groups.timing, error_str) THEN "timing"
    ELSE IF any_pattern_matches(pattern_groups.network, error_str) THEN "network"
    ELSE IF any_pattern_matches(pattern_groups.resource, error_str) THEN "resource"
    ELSE IF any_pattern_matches(pattern_groups.stale_element, error_str) THEN "stale_element"
    ELSE IF any_pattern_matches(pattern_groups.invalid_input, error_str) THEN "invalid_input"
    ELSE IF any_pattern_matches(pattern_groups.not_found, error_str) THEN "not_found"
    ELSE IF any_pattern_matches(pattern_groups.access_denied, error_str) THEN "access_denied"
    ELSE IF any_pattern_matches(pattern_groups.configuration, error_str) THEN "configuration"
    ELSE "none"

\* The eight loops of classify_error in their order: the group of the first
\* loop that returns
first_match(error_str) ==
    IF any_pattern_matches(pattern_groups.network, error_str) THEN "network"
    ELSE IF any_pattern_matches(pattern_groups.timing, error_str) THEN "timing"
    ELSE IF any_pattern_matches(pattern_groups.resource, error_str) THEN "resource"
    ELSE IF any_pattern_matches(pattern_groups.stale_element, error_str) THEN "stale_element"
    ELSE IF any_pattern_matches(pattern_groups.invalid_input, error_str) THEN "invalid_input"
    ELSE IF any_pattern_matches(pattern_groups.not_found, error_str) THEN "not_found"
    ELSE IF any_pattern_matches(pattern_groups.access_denied, error_str) THEN "access_denied"
    ELSE IF any_pattern_matches(pattern_groups.configuration, error_str) THEN "configuration"
    ELSE "none"

not_retried_with_delay(category) == ErrorClassificationResult(category, FALSE, 500000, 0)

\* A result built with should_retry=False and the defaults
not_retried(category) == ErrorClassificationResult(category, FALSE, 0, 0)

classify_error(error) ==
    LET error_str == lower(error.text)
        group == first_match(error_str)
    IN  CASE group = "network" ->
                ErrorClassificationResult("retryable_network", TRUE, 2000000, 3)
          [] group = "timing" ->
                ErrorClassificationResult("retryable_timing", TRUE, 3000000, 2)
          [] group = "resource" ->
                ErrorClassificationResult("retryable_resource", TRUE, 5000000, 2)
          [] group = "stale_element" ->
                ErrorClassificationResult("retryable_stale_element", TRUE, 500000, 2)
          [] group = "invalid_input" -> not_retried("permanent_invalid_input")
          [] group = "not_found" -> not_retried("permanent_not_found")
          [] group = "access_denied" -> not_retried("permanent_access_denied")
          [] group = "configuration" -> not_retried("permanent_configuration")
          [] OTHER ->
                IF error.type = "TimeoutError"
                THEN ErrorClassificationResult("retryable_timing", TRUE, 3000000, 2)
                ELSE not_retried("unknown")

RECURSIVE power(_, _)
power(b, n) == IF n = 0 THEN 1 ELSE b * power(b, n - 1)

min_uncapped(a, b) == a

min(a, b) == IF a <= b THEN a ELSE b

max_delay == 30000000   \* 30.0 s

refuses_retry_never(result) == FALSE

\* `if not classification.should_retry`
refuses_retry(result) == ~result.should_retry

attempts_exhausted_late(result, n) == n > result.max_retries

\* `if attempt_number >= classification.max_retries`
attempts_exhausted(result, n) == n >= result.max_retries

shaped_delay_shrinking(result, n, jitter) ==
    CASE result.category = "retryable_network" -> result.retry_delay \div power(2, n)
      [] result.category = "retryable_timing" -> result.retry_delay - n * 2000000
      [] result.category = "retryable_resource" ->
            (result.retry_delay * power(3, n)) \div power(2, n) + jitter
      [] OTHER -> result.retry_delay

shaped_delay_flat(result, n, jitter) == result.retry_delay

\* The delay of the category for the attempt, before the cap
shaped_delay(result, n, jitter) ==
    CASE result.category = "retryable_network" -> result.retry_delay * power(2, n)
      [] result.category = "retryable_timing" -> result.retry_delay + n * 2000000
      [] result.category = "retryable_resource" ->
            (result.retry_delay * power(3, n)) \div power(2, n) + jitter
      [] result.category = "retryable_stale_element" -> result.retry_delay
      [] OTHER -> result.retry_delay

get_retry_strategy(result, n, jitter) ==
    IF refuses_retry(result) THEN <<FALSE, 0>>
    ELSE IF attempts_exhausted(result, n) THEN <<FALSE, 0>>
    ELSE <<TRUE, min(shaped_delay(result, n, jitter), max_delay)>>

ClassInit ==
    /\ cls_pc = "start"
    /\ cls_error = None
    /\ classification = None
    /\ attempt_number = 0
    /\ strategy = None
    /\ network_failure_count = [u \in {} |-> 0]
    /\ last_network_failure = [u \in {} |-> 0]
    /\ net_now = 0
    /\ net_proc = [p \in {} |-> 0]
    /\ net_events = 0
    /\ net_sent = <<>>
    /\ failures_since_reset = [u \in {} |-> 0]
    /\ last_net = <<>>
    /\ loading_retry_count = [u \in {} |-> 0]
    /\ navigation_attempts = [u \in {} |-> 0]
    /\ nav_proc = [p \in {} |-> 0]
    /\ nav_events = 0
    /\ reloads = [u \in {} |-> 0]
    /\ grants_since_reset = [u \in {} |-> 0]
    /\ last_nav = <<>>
    /\ retry_counts = [k \in {} |-> 0]
    /\ last_dom_rebuild = 0
    /\ now = rebuild_min_interval
    /\ proc = [p \in Procs |-> IdleProc]
    /\ selector_map = <<N1, N2>>
    /\ errors = <<>>
    /\ rebuilds = <<>>
    /\ attempts = [k \in RetryKeys |-> 0]
    /\ events = 0
    /\ last_op = Op("init", 0)
    /\ last_event = NoEvent
    /\ lookups = 0
    /\ phase = "off"
    /\ in_node = N1
    /\ in_map = <<>>
    /\ in_desc = SessionFails
    /\ out_fresh = None
    /\ out_stale = FALSE
    /\ loop = "none"
    /\ poll_pc = "done"
    /\ elapsed = 0
    /\ iterations = 0
    /\ outcome = ""
    /\ last_content_hash = None
    /\ stable_start_time = None
    /\ observed = <<>>
    /\ initial_empty = 0
    /\ stab_history = [all_unstable |-> TRUE, logged |-> {}]
    /\ pre_submit_state = None
    /\ current_state = None
    /\ f_handler = "none"
    /\ f_site = 0
    /\ f_status = "returned"
    /\ f_failed = {}

call_classify_error(error) ==
    /\ cls_pc = "start"
    /\ cls_error' = Some(error)
    /\ classification' = Some(classify_error(error))
    /\ cls_pc' = "classified"
    /\ UNCHANGED <<attempt_number, strategy>>
    /\ UNCHANGED notClass

\* A caller builds a classification of its own
call_ErrorClassificationResult(category, should_retry, retry_delay, retries) ==
    /\ cls_pc = "start"
    /\ classification' = Some(ErrorClassificationResult(category, should_retry,
                                                        retry_delay, retries))
    /\ cls_pc' = "classified"
    /\ UNCHANGED <<cls_error, attempt_number, strategy>>
    /\ UNCHANGED notClass

call_get_retry_strategy(n, jitter) ==
    /\ cls_pc = "classified"
    /\ attempt_number' = n
    /\ strategy' = Some(get_retry_strategy(classification[1], n, jitter))
    /\ cls_pc' = "done"
    /\ UNCHANGED <<cls_error, classification>>
    /\ UNCHANGED notClass

ClassNext ==
    \/ \E error \in Errors : call_classify_error(error)
    \/ \E category \in ErrorCategory, should_retry \in BOOLEAN,
          retry_delay \in RetryDelays, retries \in 0..MaxAttempt :
            call_ErrorClassificationResult(category, should_retry, retry_delay, retries)
    \/ \E n \in 0..MaxAttempt, jitter \in Jitters : call_get_retry_strategy(n, jitter)

SpecClassifier == ClassInit /\ [][ClassNext]_vars

----------------------------------------------------------------------------
(* NetworkReliabilityWatchdog *)

NetProcs == {1, 2}

\* event.error_message: none, or a text in words
NetErrorMessages ==
    { <<>>,
      <<"net::ERR_CONNECTION_RESET">>,
      <<"net::ERR_CERT_AUTHORITY_INVALID">>,
      <<"Timeout">>,
      <<"forbidden">> }

network_keywords ==
    {"net::err_", "dns_probe_finished", "connection_refused", "connection_timed_out",
     "network_changed", "internet_disconnected", "name_not_resolved", "connection_reset",
     "ssl_protocol_error", "cert_", "timeout", "failed to load", "server not found"}

permanent_errors ==
    {"name_not_resolved", "dns_probe_finished_nxdomain", "cert_authority_invalid",
     "cert_common_name_invalid"}

\* The keywords of the two lists that occur in a lower-case word
keywords_in(w) ==
    CASE w = "net::err_connection_reset" -> {"net::err_", "connection_reset"}
      [] w = "net::err_cert_authority_invalid" ->
            {"net::err_", "cert_", "cert_authority_invalid"}
      [] w = "timeout" -> {"timeout"}
      [] OTHER -> {}

\* `any(keyword in error_lower for keyword in keywords)`
any_keyword_in(keywords, error_lower) ==
    \E keyword \in keywords : \E i \in 1..Len(error_lower) : keyword \in keywords_in(error_lower[i])

expiry_window == 300    \* seconds

net_max_retries == 3

\* The steps of the clock: the window itself and just beyond it
TimeSteps == {expiry_window, expiry_window + 1}

IdleNet == [pc |-> "idle", url |-> ""]

limit_reached_late(failure_count) == failure_count > net_max_retries

\* `if failure_count >= max_retries`
limit_reached(failure_count) == failure_count >= net_max_retries

\* _calculate_retry_strategy; jitter is random.uniform(0, 1.0)
calculate_retry_strategy(error_message, failure_count, jitter) ==
    IF any_keyword_in(permanent_errors, lower(error_message)) THEN <<FALSE, 0>>
    ELSE IF limit_reached(failure_count) THEN <<FALSE, 0>>
    ELSE <<TRUE, min(2000000 * power(2, failure_count - 1), 30000000) + jitter>>

forget_all(counts, url) == [u \in {} |-> 0]

\* dict.pop(url, None)
forget(counts, url) == [u \in DOMAIN counts \ {url} |-> counts[u]]

\* The urls whose last failure is more than 5 minutes old
expired_urls == {u \in DOMAIN last_network_failure : net_now - last_network_failure[u] > expiry_window}

NetInit ==
    /\ network_failure_count = [u \in {} |-> 0]
    /\ last_network_failure = [u \in {} |-> 0]
    /\ net_now = 0
    /\ net_proc = [p \in NetProcs |-> IdleNet]
    /\ net_events = 0
    /\ net_sent = [reload |-> 0, navigate |-> 0]
    /\ failures_since_reset = [u \in Urls |-> 0]
    /\ last_net = [handler |-> "", kind |-> "", url |-> "", error_message |-> <<>>,
                   failure_count |-> 0, strategy |-> <<FALSE, 0>>]
    /\ loading_retry_count = [u \in {} |-> 0]
    /\ navigation_attempts = [u \in {} |-> 0]
    /\ nav_proc = [p \in {} |-> 0]
    /\ nav_events = 0
    /\ reloads = [u \in {} |-> 0]
    /\ grants_since_reset = [u \in {} |-> 0]
    /\ last_nav = <<>>
    /\ retry_counts = [k \in {} |-> 0]
    /\ last_dom_rebuild = 0
    /\ now = rebuild_min_interval
    /\ proc = [p \in Procs |-> IdleProc]
    /\ selector_map = <<N1, N2>>
    /\ errors = <<>>
    /\ rebuilds = <<>>
    /\ attempts = [k \in RetryKeys |-> 0]
    /\ events = 0
    /\ last_op = Op("init", 0)
    /\ last_event = NoEvent
    /\ lookups = 0
    /\ phase = "off"
    /\ in_node = N1
    /\ in_map = <<>>
    /\ in_desc = SessionFails
    /\ out_fresh = None
    /\ out_stale = FALSE
    /\ loop = "none"
    /\ poll_pc = "done"
    /\ elapsed = 0
    /\ iterations = 0
    /\ outcome = ""
    /\ last_content_hash = None
    /\ stable_start_time = None
    /\ observed = <<>>
    /\ initial_empty = 0
    /\ stab_history = [all_unstable |-> TRUE, logged |-> {}]
    /\ pre_submit_state = None
    /\ current_state = None
    /\ f_handler = "none"
    /\ f_site = 0
    /\ f_status = "returned"
    /\ f_failed = {}
    /\ cls_pc = "off"
    /\ cls_error = None
    /\ classification = None
    /\ attempt_number = 0
    /\ strategy = None

net_on_NavigationStartedEvent(url) ==
    /\ net_events < MaxNetEvents
    /\ net_events' = net_events + 1
    /\ network_failure_count' =
            [u \in DOMAIN network_failure_count \ expired_urls |-> network_failure_count[u]]
    /\ last_network_failure' =
            [u \in DOMAIN last_network_failure \ expired_urls |-> last_network_failure[u]]
    /\ failures_since_reset' =
            [u \in Urls |-> IF u \in expired_urls THEN 0 ELSE failures_since_reset[u]]
    /\ last_net' = [handler |-> "started", kind |-> "started", url |-> url,
                    error_message |-> <<>>, failure_count |-> 0, strategy |-> <<FALSE, 0>>]
    /\ UNCHANGED <<net_now, net_proc, net_sent>>
    /\ UNCHANGED notNet

\* on_NavigationCompleteEvent, with _handle_network_error up to
\* `await asyncio.sleep(retry_delay)`
net_on_NavigationCompleteEvent(p, url, error_message, jitter) ==
    /\ net_events < MaxNetEvents
    /\ net_proc[p].pc = "idle"
    /\ \A q \in NetProcs : q < p => net_proc[q].pc /= "idle"
    /\ net_events' = net_events + 1
    /\ IF error_message = <<>>
       THEN /\ network_failure_count' = forget(network_failure_count, url)
            /\ last_network_failure' = forget(last_network_failure, url)
            /\ failures_since_reset' = [failures_since_reset EXCEPT ![url] = 0]
            /\ last_net' = [handler |-> "complete", kind |-> "success", url |-> url,
                            error_message |-> error_message, failure_count |-> 0,
                            strategy |-> <<FALSE, 0>>]
            /\ UNCHANGED net_proc
       ELSE IF ~any_keyword_in(network_keywords, lower(error_message))
       THEN /\ last_net' = [handler |-> "complete", kind |-> "ignored", url |-> url,
                            error_message |-> error_message, failure_count |-> 0,
                            strategy |-> <<FALSE, 0>>]
            /\ UNCHANGED <<network_failure_count, last_network_failure,
                           failures_since_reset, net_proc>>
       ELSE LET failure_count == count_of(network_failure_count, url) + 1
                decided == calculate_retry_strategy(error_message, failure_count, jitter)
            IN  /\ network_failure_count' = set_count(network_failure_count, url, failure_count)
                /\ last_network_failure' = set_count(last_network_failure, url, net_now)
                /\ failures_since_reset' = [failures_since_reset EXCEPT ![url] = @ + 1]
                /\ last_net' = [handler |-> "complete", kind |-> "failure", url |-> url,
                                error_message |-> error_message,
                                failure_count |-> failure_count, strategy |-> decided]
                /\ net_proc' = IF decided[1]
                               THEN [net_proc EXCEPT ![p] = [pc |-> "retry", url |-> url]]
                               ELSE net_proc
    /\ UNCHANGED <<net_now, net_sent>>
    /\ UNCHANGED notNet

\* _handle_network_error after the sleep: Page.reload when the page is still at
\* the url or at about:blank, a NavigateToUrlEvent otherwise, nothing when a
\* call raised
network_retry_sent(p, answer) ==
    /\ net_proc[p].pc = "retry"
    /\ net_proc' = [net_proc EXCEPT ![p] = IdleNet]
    /\ net_sent' = CASE answer = "same_url" -> [net_sent EXCEPT !.reload = @ + 1]
                     [] answer = "other_url" -> [net_sent EXCEPT !.navigate = @ + 1]
                     [] OTHER -> net_sent
    /\ UNCHANGED <<network_failure_count, last_network_failure, net_now, net_events,
                   failures_since_reset, last_net>>
    /\ UNCHANGED notNet

\* Time passes
net_time_passes(step) ==
    /\ net_now + step <= MaxNetClock
    /\ net_now' = net_now + step
    /\ UNCHANGED <<network_failure_count, last_network_failure, net_proc, net_events,
                   net_sent, failures_since_reset, last_net>>
    /\ UNCHANGED notNet

NetNext ==
    \/ \E url \in Urls : net_on_NavigationStartedEvent(url)
    \/ \E p \in NetProcs, url \in Urls, error_message \in NetErrorMessages, jitter \in Jitters :
            net_on_NavigationCompleteEvent(p, url, error_message, jitter)
    \/ \E p \in NetProcs, answer \in {"same_url", "other_url", "raise"} :
            network_retry_sent(p, answer)
    \/ \E step \in TimeSteps : net_time_passes(step)

SpecNet == NetInit /\ [][NetNext]_vars

----------------------------------------------------------------------------
(* EnhancedErrorClassifier: properties *)

\* The category classify_error returns for a group of patterns
category_of_group(group) ==
    CASE group = 1 -> "retryable_network"
      [] group = 2 -> "retryable_timing"
      [] group = 3 -> "retryable_resource"
      [] group = 4 -> "retryable_stale_element"
      [] group = 5 -> "permanent_invalid_input"
      [] group = 6 -> "permanent_not_found"
      [] group = 7 -> "permanent_access_denied"
      [] OTHER -> "permanent_configuration"

\* The groups that have a pattern matching the text
matching_groups(text) ==
    LET in_order == <<pattern_groups.network, pattern_groups.timing,
                      pattern_groups.resource, pattern_groups.stale_element,
                      pattern_groups.invalid_input, pattern_groups.not_found,
                      pattern_groups.access_denied, pattern_groups.configuration>>
    IN  {g \in 1..8 : \E i \in 1..Len(in_order[g]) :
                          re_search(in_order[g][i], lower(text))}

\* classify_error was applied to an error
Classified == cls_pc /= "start" /\ cls_error /= None

\* C18: classify_error returns the category of the first group, in the order
\* network, timing, resource, stale element, invalid input, not found, access
\* denied, configuration, that has a matching pattern; with no matching group
\* a TimeoutError is retryable-timing and any other error unknown.  A text
\* matching a network pattern is retryable-network whatever else it matches
\* and whatever the exception type is.
C18_FirstMatchingGroupWins ==
    Classified =>
        LET groups == matching_groups(cls_error[1].text)
            category == classification[1].category
        IN  /\ \A g \in groups :
                    (\A h \in groups : g <= h) => category = category_of_group(g)
            /\ 1 \in groups => category = "retryable_network"
            /\ (groups = {} /\ cls_error[1].type = "TimeoutError")
                    => category = "retryable_timing"
            /\ (groups = {} /\ cls_error[1].type /= "TimeoutError")
                    => category = "unknown"

C18_Witness ==
    /\ Classified
    /\ cls_error[1].text = <<"connection", "Timeout">>
    /\ cls_error[1].type = "TimeoutError"
    /\ matching_groups(cls_error[1].text) = {1, 2}
    /\ classification[1].category = "retryable_network"

\* C19: classify_error returns a result for every error, with a category of
\* the enumeration and the values of the table: network retryable 2 s / 3,
\* timing retryable 3 s / 2, resource retryable 5 s / 2, stale element
\* retryable 0.5 s / 2, the permanent categories and unknown not retryable
\* with delay 0 and 0 retries.
C19_ResultFollowsCategoryTable ==
    Classified =>
        LET result == classification[1]
            row(should_retry, retry_delay, retries) ==
                /\ result.should_retry = should_retry
                /\ result.retry_delay = retry_delay
                /\ result.max_retries = retries
        IN  /\ DOMAIN result = {"category", "should_retry", "retry_delay", "max_retries"}
            /\ result.category \in ErrorCategory
            /\ CASE result.category = "retryable_network" -> row(TRUE, 2000000, 3)
                 [] result.category = "retryable_timing" -> row(TRUE, 3000000, 2)
                 [] result.category = "retryable_resource" -> row(TRUE, 5000000, 2)
                 [] result.category = "retryable_stale_element" -> row(TRUE, 500000, 2)
                 [] OTHER -> row(FALSE, 0, 0)

C19_Witness ==
    /\ Classified
    /\ cls_error[1].text = <<"page", "not", "found">>
    /\ classification[1] = ErrorClassificationResult("permanent_not_found", FALSE, 0, 0)

\* C20: for a classification with should_retry = false, get_retry_strategy
\* returns (false, 0.0) at every attempt number.
C20_NoRetryWhenNotRetryable ==
    (cls_pc = "done" /\ ~classification[1].should_retry) => strategy = Some(<<FALSE, 0>>)

C20_Witness ==
    /\ cls_pc = "done"
    /\ ~classification[1].should_retry
    /\ classification[1].retry_delay > 0
    /\ attempt_number > 0
    /\ attempt_number < classification[1].max_retries
    /\ strategy = Some(<<FALSE, 0>>)

\* get_retry_strategy was applied to a classification with should_retry = true
StrategyOfRetryable == cls_pc = "done" /\ classification[1].should_retry

\* C21: for a retryable classification and attempt number n the retry is
\* granted if and only if n < max_retries: a caller counting its attempts
\* from 0 is granted max_retries retries and refused from then on.
C21_GrantedBelowMaxRetries ==
    StrategyOfRetryable =>
        /\ strategy[1][1] <=> attempt_number < classification[1].max_retries
        /\ \A n \in 0..MaxAttempt :
              get_retry_strategy(classification[1], n, 0)[1]
                    <=> n < classification[1].max_retries

C21_Witness ==
    /\ StrategyOfRetryable
    /\ classification[1].max_retries = 3
    /\ attempt_number = 3
    /\ strategy = Some(<<FALSE, 0>>)
    /\ \A n \in 0..2 : get_retry_strategy(classification[1], n, 0)[1]

\* get_retry_strategy was applied to a network or timing classification
NetworkOrTiming ==
    /\ StrategyOfRetryable
    /\ classification[1].category \in {"retryable_network", "retryable_timing"}

\* C22 as claimed: for the network and timing categories the returned delay
\* is non-decreasing in the attempt number, delay(m) <= delay(n) for all
\* attempt numbers m <= n.
C22_DelayNonDecreasing ==
    NetworkOrTiming =>
        \A m \in 0..attempt_number :
            get_retry_strategy(classification[1], m, 0)[2] <= strategy[1][2]

\* C22 as amended: for the network and timing categories the delays of the
\* granted retries are non-decreasing, delay(m) <= delay(n) for all attempt
\* numbers m <= n < max_retries; a refused attempt returns delay 0.
C22_GrantedDelayNonDecreasing ==
    NetworkOrTiming =>
        IF attempt_number < classification[1].max_retries
        THEN \A m \in 0..attempt_number :
                get_retry_strategy(classification[1], m, 0)[2] <= strategy[1][2]
        ELSE strategy[1][2] = 0

C22_Witness ==
    /\ NetworkOrTiming
    /\ cls_error /= None
    /\ classification[1].category = "retryable_network"
    /\ attempt_number = 2
    /\ strategy = Some(<<TRUE, 8000000>>)
    /\ get_retry_strategy(classification[1], 1, 0) = <<TRUE, 4000000>>

\* C23: every delay get_retry_strategy returns is at most 30 seconds, for
\* every category, base delay, attempt number and jitter.
C23_DelayAtMostThirtySeconds ==
    cls_pc = "done" => strategy[1][2] <= 30000000

C23_Witness ==
    /\ cls_pc = "done"
    /\ classification[1].category = "retryable_resource"
    /\ classification[1].retry_delay = 20000000
    /\ attempt_number = 1
    /\ strategy = Some(<<TRUE, 30000000>>)

\* At most 30 seconds of a delay
at_most_30s(delay) == IF delay > 30000000 THEN 30000000 ELSE delay

\* The delay of a granted network or timing retry: min(30, base x 2^attempt),
\* min(30, base + attempt x 2 s); 2, 4, 8 seconds and 3, 5 seconds with the
\* base delays of the classifier's table
BackoffAsClaimed ==
    LET base == classification[1].retry_delay
        delay == strategy[1][2]
    IN  /\ classification[1].category = "retryable_network" =>
              /\ delay = at_most_30s(base * power(2, attempt_number))
              /\ cls_error /= None =>
                    delay = CASE attempt_number = 0 -> 2000000
                              [] attempt_number = 1 -> 4000000
                              [] OTHER -> 8000000
        /\ classification[1].category = "retryable_timing" =>
              /\ delay = at_most_30s(base + attempt_number * 2000000)
              /\ cls_error /= None =>
                    delay = IF attempt_number = 0 THEN 3000000 ELSE 5000000

\* get_retry_strategy granted a retry
RetryGranted == cls_pc = "done" /\ strategy[1][1]

\* C34 as claimed: the delay of a granted retry is min(30, base x 2^attempt)
\* for the network category, min(30, base + attempt x 2 s) for the timing
\* category and the base delay itself for the stale-element category.
C34_DelayShapes ==
    RetryGranted =>
        /\ BackoffAsClaimed
        /\ classification[1].category = "retryable_stale_element" =>
                strategy[1][2] = classification[1].retry_delay

\* C34 as amended: as claimed for the network and timing categories; for the
\* stale-element category the delay is min(30, base), the same for every
\* attempt number.
C34_DelayShapesCapped ==
    RetryGranted =>
        /\ BackoffAsClaimed
        /\ classification[1].category = "retryable_stale_element" =>
                strategy[1][2] = at_most_30s(classification[1].retry_delay)

C34_Witness ==
    /\ RetryGranted
    /\ classification[1].category = "retryable_stale_element"
    /\ classification[1].retry_delay = 40000000
    /\ attempt_number = 1
    /\ strategy = Some(<<TRUE, 30000000>>)

----------------------------------------------------------------------------
(* NetworkReliabilityWatchdog: properties *)

\* A NavigationComplete event is handled and records a network failure
FailureRecorded ==
    /\ net_events' = net_events + 1
    /\ last_net'.kind = "failure"

\* A NavigationComplete event without error is handled
SuccessHandled ==
    /\ net_events' = net_events + 1
    /\ last_net'.kind = "success"

\* C24: after 2 recorded failures for a url, a failure recorded more than
\* 300 seconds after the last recorded one leaves the stored count at 1, not
\* 3, whatever the events in between.
C24_FailuresExpireAfterFiveMinutes ==
    [][\A u \in Urls :
          (/\ FailureRecorded
           /\ last_net'.url = u
           /\ count_of(network_failure_count, u) = 2
           /\ net_now - last_network_failure[u] > 300)
            => network_failure_count'[u] = 1]_vars

\* C25: the entry of a url is created with count 1 by its first recorded
\* failure and incremented by exactly 1 by each further one; a
\* NavigationComplete without error for the url removes its count and its
\* timestamp and leaves the entries of every other url as they were.
C25_RetryStateLifecycle ==
    [][/\ FailureRecorded =>
            LET u == last_net'.url
            IN  /\ network_failure_count'[u] =
                        IF u \in DOMAIN network_failure_count
                        THEN network_failure_count[u] + 1
                        ELSE 1
                /\ last_network_failure'[u] = net_now
                /\ \A v \in Urls \ {u} :
                        /\ count_of(network_failure_count', v) = count_of(network_failure_count, v)
                        /\ v \in DOMAIN network_failure_count' <=> v \in DOMAIN network_failure_count
       /\ SuccessHandled =>
            LET u == last_net'.url
            IN  /\ u \notin DOMAIN network_failure_count'
                /\ u \notin DOMAIN last_network_failure'
                /\ \A v \in Urls \ {u} :
                        /\ v \in DOMAIN network_failure_count' <=> v \in DOMAIN network_failure_count
                        /\ v \in DOMAIN last_network_failure' <=> v \in DOMAIN last_network_failure
                        /\ v \in DOMAIN network_failure_count =>
                                network_failure_count'[v] = network_failure_count[v]
                        /\ v \in DOMAIN last_network_failure =>
                                last_network_failure'[v] = last_network_failure[v]]_vars

C25_Witness ==
    /\ last_net.kind = "success"
    /\ last_net.url = "u1"
    /\ "u1" \notin DOMAIN network_failure_count
    /\ "u1" \notin DOMAIN last_network_failure
    /\ failures_since_reset["u1"] = 0
    /\ count_of(network_failure_count, "u2") = 2
    /\ "u2" \in DOMAIN last_network_failure

\* C26: for the k-th consecutive recorded network failure of a url the retry
\* decision and delay of NetworkReliabilityWatchdog are the pair that
\* get_retry_strategy returns for the classification of the same error text
\* at attempt number k - 1.
C26_RetryFollowsClassifierPolicy ==
    last_net.kind = "failure" =>
        last_net.strategy =
            get_retry_strategy(
                classify_error([text |-> last_net.error_message, type |-> "Exception"]),
                last_net.failure_count - 1, 0)

\* C30 for network failures: the stored count of a url is the number of
\* failures recorded for it since its entry was last removed by a success or
\* by expiry, and handling an event for a url changes the count of no other
\* url, under any interleaving of the handlers.
C30_NetworkCountsAreExact ==
    \A u \in Urls : count_of(network_failure_count, u) = failures_since_reset[u]

\* The retry actions sent so far
retry_actions(sent) == sent.reload + sent.navigate

\* Handler p sends a retry action in this step
RetryActionSent(p) ==
    /\ net_proc[p].pc = "retry"
    /\ net_proc'[p] = IdleNet
    /\ net_sent' /= net_sent

C37_CountsAndTimestampsPaired ==
    /\ DOMAIN network_failure_count = DOMAIN last_network_failure
    /\ \A u \in DOMAIN network_failure_count : network_failure_count[u] >= 1

C37_Witness ==
    /\ DOMAIN network_failure_count = {"u1", "u2"}
    /\ DOMAIN last_network_failure = {"u1", "u2"}
    /\ network_failure_count["u1"] = 2
    /\ last_network_failure["u1"] > last_network_failure["u2"]

\* C38: no retry action is sent for a url when a NavigationComplete without
\* error for that url was handled after the failure that scheduled the retry:
\* here the success is the last event handled before the retry is sent.
C38_NoRetryAfterSuccess ==
    [][\A p \in NetProcs :
          RetryActionSent(p) =>
              ~(last_net.kind = "success" /\ last_net.url = net_proc[p].url)]_vars

====
